---------------------------- MODULE Spec2Model ----------------------------
(***************************************************************************)
(* Model of the Kedi IPTV catalog pipeline: the M3U parser                 *)
(* (src/src/utils/m3uParser.ts and its standalone copy                     *)
(* src/electron/helpers/m3u-to-json.cjs) and the series grouper            *)
(* (src/src/utils/seriesGrouping.ts).                                      *)
(*                                                                         *)
(* A JavaScript string is a sequence of one-character strings, so that     *)
(* substring search, regular-expression matching, trimming and case        *)
(* conversion are computed character by character as the code does.        *)
(* null is the value NULL, which is no sequence of characters.             *)
(* The texts of the model are ASCII: the platform labels GAIN and Yesilcam *)
(* are written without their diacritics, and the second spelling of        *)
(* detectCategory's last keyword (with dotted capital I and soft G) is     *)
(* left out, since no text of the model can contain it.                    *)
(***************************************************************************)
EXTENDS Integers, Sequences, FiniteSets, TLC

VARIABLES
  impl,      \* which copy of parseM3U runs: "ts" (in-process) or "cjs" (standalone)
  attrs,     \* the group-title and tvg-name the playlist was written with
  content,   \* the playlist text given to parseM3U
  lines,     \* parseM3U: the trimmed non-empty lines
  i,         \* parseM3U: the loop index (0-based, as in the code)
  entries,   \* parseM3U: the records pushed so far
  pc,        \* parseM3U: "start", "loop" or "done" ("idle": not running)
  items,     \* groupSeriesByShow: the list it is given
  groups,    \* groupSeriesByShow: the Map, as its entries in insertion order
  gi,        \* groupSeriesByShow: the number of items the forEach has handled
  gpc,       \* groupSeriesByShow: "forEach", "seasons" or "done" ("idle": not running)
  view,      \* what the last getGroupForItem or getSortedSeasons call returned
  previous,  \* what an earlier parseM3U call on the same text returned
  calls,     \* syncIPTVData: the state of each call
  store,     \* the localForage store of iptvStorage (content, metadata, ...)
  settings,  \* the settings kept in localStorage (iptvLastSync)
  cachedData,\* dataLoader: the in-memory content cache
  load,      \* loadContentData: the state of the call
  clock,     \* what new Date() and Date.now() return
  history,   \* localStorage: the value kept under WATCH_HISTORY_KEY
  watch,     \* the last watch-history call and the number of calls made
  activeDownloads, \* the keys of the activeDownloads Map
  downloadState,   \* the downloadState object of the download
  incoming,  \* the chunks of the response body that have not arrived yet
  received,  \* the chunks the response has emitted as 'data' events
  disk,      \* the file at savePath: whether it exists, and the chunks in it
  status,    \* the status of the last event sent to the renderer
  dpc,       \* the download: "idle", "requested", "redirected", "streaming", ...
  reply      \* what the last file:download IPC call returned

parseVars == <<impl, attrs, content, lines, i, entries, pc, previous>>
groupVars == <<items, groups, gi, gpc, view>>
syncVars == <<calls, store, settings, cachedData, load, clock>>
watchVars == <<history, watch>>
downloadVars == <<activeDownloads, downloadState, incoming, received, disk, status, dpc,
                  reply>>
appVars == <<watchVars, downloadVars>>
vars == <<impl, attrs, content, lines, i, entries, pc, previous, items, groups, gi, gpc,
          view, calls, store, settings, cachedData, load, clock, history, watch,
          activeDownloads, downloadState, incoming, received, disk, status, dpc, reply>>

(***************************************************************************)
(* Characters and JavaScript string primitives                             *)
(***************************************************************************)
NULL == <<"<null>">>
\* no earlier parseM3U call on the text has returned
NoCall == [returned |-> FALSE]
\* no getGroupForItem or getSortedSeasons call has returned yet
NoView == [op |-> "none"]

UPPER == <<"A", "B", "C", "D", "E", "F", "G", "H", "I", "J", "K", "L", "M", "N", "O", "P", "Q", "R", "S", "T", "U", "V", "W", "X", "Y", "Z">>
LOWER == <<"a", "b", "c", "d", "e", "f", "g", "h", "i", "j", "k", "l", "m", "n", "o", "p", "q", "r", "s", "t", "u", "v", "w", "x", "y", "z">>
DIGITS == <<"0", "1", "2", "3", "4", "5", "6", "7", "8", "9">>

IsUpperAZ(c) == \E k \in DOMAIN UPPER : UPPER[k] = c
IsLowerAZ(c) == \E k \in DOMAIN LOWER : LOWER[k] = c
IsDigit(c) == \E k \in DOMAIN DIGITS : DIGITS[k] = c
\* \s of a JavaScript regular expression, and the characters trim() removes
IsSpace(c) == c \in {" ", "\t", "\r", "\n"}

Min(S) == CHOOSE x \in S : \A y \in S : x <= y
Max(S) == CHOOSE x \in S : \A y \in S : x >= y

toUpperCaseChar(c) ==
  IF IsLowerAZ(c) THEN UPPER[CHOOSE k \in DOMAIN LOWER : LOWER[k] = c] ELSE c
toLowerCaseChar(c) ==
  IF IsUpperAZ(c) THEN LOWER[CHOOSE k \in DOMAIN UPPER : UPPER[k] = c] ELSE c
toUpperCase(s) == [k \in 1..Len(s) |-> toUpperCaseChar(s[k])]
toLowerCase(s) == [k \in 1..Len(s) |-> toLowerCaseChar(s[k])]

\* the literal lit occurs in s at position p
MatchAt(s, p, lit) ==
  /\ p >= 1
  /\ p + Len(lit) - 1 <= Len(s)
  /\ \A k \in 1..Len(lit) : s[p + k - 1] = lit[k]
\* as MatchAt, ignoring the case of ASCII letters (the i flag)
MatchAtI(s, p, lit) ==
  /\ p >= 1
  /\ p + Len(lit) - 1 <= Len(s)
  /\ \A k \in 1..Len(lit) : toUpperCaseChar(s[p + k - 1]) = toUpperCaseChar(lit[k])
includes(s, lit) == \E p \in 1..(Len(s) - Len(lit) + 1) : MatchAt(s, p, lit)
startsWith(s, lit) == MatchAt(s, 1, lit)
\* first position of lit in s, 0 when absent
indexOf(s, lit) ==
  IF includes(s, lit)
  THEN Min({p \in 1..(Len(s) - Len(lit) + 1) : MatchAt(s, p, lit)})
  ELSE 0

\* number of consecutive characters from position p on that satisfy Cls
RunLen(s, p, Cls(_)) ==
  Max({n \in 0..(Len(s) - p + 1) : \A k \in 0..(n - 1) : Cls(s[p + k])})

trim(s) ==
  LET keep == {k \in 1..Len(s) : ~IsSpace(s[k])}
  IN IF keep = {} THEN <<>> ELSE SubSeq(s, Min(keep), Max(keep))

DigitVal(c) == (CHOOSE k \in DOMAIN DIGITS : DIGITS[k] = c) - 1
RECURSIVE DigitsToInt(_)
DigitsToInt(s) ==
  IF s = <<>> THEN 0
  ELSE DigitsToInt(SubSeq(s, 1, Len(s) - 1)) * 10 + DigitVal(s[Len(s)])
\* parseInt(s, 10) of a string that starts with a digit: its leading digits
parseInt(s) == DigitsToInt(SubSeq(s, 1, RunLen(s, 1, IsDigit)))
\* String(n) of a non-negative integer
RECURSIVE String(_)
String(n) ==
  IF n < 10 THEN <<DIGITS[n + 1]>>
  ELSE String(n \div 10) \o <<DIGITS[(n % 10) + 1]>>


(***************************************************************************)
(* Regular expressions of the parser.  Each XLenAt(s, p) is the length of  *)
(* the match of regular expression X that starts at position p of s, and 0 *)
(* when there is none (no expression here matches the empty string).       *)
(***************************************************************************)
\* first position >= pos where LenAt finds a match, 0 when there is none
FirstMatch(s, pos, LenAt(_, _)) ==
  LET ps == {p \in pos..Len(s) : LenAt(s, p) > 0}
  IN IF ps = {} THEN 0 ELSE Min(ps)

\* String.prototype.replace with a g-flagged expression and replacement rep:
\* the matches are found left to right in the original string, each search
\* starting where the previous match ended
RECURSIVE ReplaceAll(_, _, _, _)
ReplaceAll(s, pos, LenAt(_, _), rep) ==
  LET p == FirstMatch(s, pos, LenAt)
  IN IF p = 0 THEN SubSeq(s, pos, Len(s))
     ELSE SubSeq(s, pos, p - 1) \o rep \o ReplaceAll(s, p + LenAt(s, p), LenAt, rep)

\* <open>[A-Z]{2,3}<close> at p: the number of letters (2 or 3), else 0
CodeLettersAt(s, p, opens, closes) ==
  IF p < 1 \/ p > Len(s) \/ s[p] \notin opens THEN 0
  ELSE IF /\ p + 4 <= Len(s)
          /\ IsUpperAZ(s[p + 1]) /\ IsUpperAZ(s[p + 2]) /\ IsUpperAZ(s[p + 3])
          /\ s[p + 4] \in closes THEN 3
  ELSE IF /\ p + 3 <= Len(s)
          /\ IsUpperAZ(s[p + 1]) /\ IsUpperAZ(s[p + 2])
          /\ s[p + 3] \in closes THEN 2
  ELSE 0

\* /[\[|]([A-Z]{2,3})[\]|]/
LangCodeLenAt(s, p) ==
  LET n == CodeLettersAt(s, p, {"[", "|"}, {"]", "|"}) IN IF n = 0 THEN 0 ELSE n + 2
\* /\[[A-Z]{2,3}\]/
BracketCodeLenAt(s, p) ==
  LET n == CodeLettersAt(s, p, {"["}, {"]"}) IN IF n = 0 THEN 0 ELSE n + 2
\* /\|[A-Z]{2,3}\|/
PipeCodeLenAt(s, p) ==
  LET n == CodeLettersAt(s, p, {"|"}, {"|"}) IN IF n = 0 THEN 0 ELSE n + 2

\* S(\d{2,})E(\d{2,}) at p with the letters drawn from ss and es:
\* <<digits of group 1, digits of group 2>>, <<0, 0>> when there is no match
SeasonEpisodeAt(s, p, ss, es) ==
  IF p < 1 \/ p > Len(s) \/ s[p] \notin ss THEN <<0, 0>>
  ELSE LET n1 == RunLen(s, p + 1, IsDigit)
           q == p + 1 + n1
       IN IF n1 < 2 \/ q > Len(s) \/ s[q] \notin es THEN <<0, 0>>
          ELSE LET n2 == RunLen(s, q + 1, IsDigit)
               IN IF n2 < 2 THEN <<0, 0>> ELSE <<n1, n2>>
\* /S\d{2,}E\d{2,}/
SeasonEpisodeLenAt(s, p) ==
  LET m == SeasonEpisodeAt(s, p, {"S"}, {"E"})
  IN IF m[1] = 0 THEN 0 ELSE m[1] + m[2] + 2
\* SeasonEpisodeILenAt without the i flag
SeasonEpisodeUpperCaseLenAt(s, p) ==
  LET m == SeasonEpisodeAt(s, p, {"S"}, {"E"})
  IN IF m[1] = 0 THEN 0 ELSE m[1] + m[2] + 2
\* /S\d{2,}E\d{2,}/i
SeasonEpisodeILenAt(s, p) ==
  LET m == SeasonEpisodeAt(s, p, {"S", "s"}, {"E", "e"})
  IN IF m[1] = 0 THEN 0 ELSE m[1] + m[2] + 2

\* /\(((19|20)\d{2})\)/
ParenYearLenAt(s, p) ==
  IF /\ p >= 1 /\ p + 5 <= Len(s)
     /\ s[p] = "("
     /\ (MatchAt(s, p + 1, <<"1", "9">>) \/ MatchAt(s, p + 1, <<"2", "0">>))
     /\ IsDigit(s[p + 3]) /\ IsDigit(s[p + 4])
     /\ s[p + 5] = ")"
  THEN 6 ELSE 0
\* /(202[0-9])/
TitleYearLenAt(s, p) ==
  IF MatchAt(s, p, <<"2", "0", "2">>) /\ p + 3 <= Len(s) /\ IsDigit(s[p + 3]) THEN 4 ELSE 0

\* /\s*X\s*/ where X is matched by CoreLenAt: the white space before and
\* after the match of X belongs to the match
PaddedLenAt(s, p, CoreLenAt(_, _)) ==
  IF p < 1 \/ p > Len(s) THEN 0
  ELSE LET w == RunLen(s, p, IsSpace)
           n == CoreLenAt(s, p + w)
       IN IF n = 0 THEN 0 ELSE w + n + RunLen(s, p + w + n, IsSpace)

\* /\s*\((19|20)\d{2}\)\s*/
PaddedYearLenAt(s, p) == PaddedLenAt(s, p, ParenYearLenAt)

IsUpperOrDigit(c) == IsUpperAZ(c) \/ IsDigit(c)
\* /[\[|][A-Z0-9]+[\]|]/
AlnumCodeLenAt(s, p) ==
  IF p < 1 \/ p > Len(s) \/ s[p] \notin {"[", "|"} THEN 0
  ELSE LET n == RunLen(s, p + 1, IsUpperOrDigit)
       IN IF n >= 1 /\ p + 1 + n <= Len(s) /\ s[p + 1 + n] \in {"]", "|"}
          THEN n + 2 ELSE 0
\* /\s*[\[|][A-Z0-9]+[\]|]\s*/
PaddedCodeLenAt(s, p) == PaddedLenAt(s, p, AlnumCodeLenAt)

\* /^[A-Z]{2,3}\s*:\s*/i: the length of the prefix it matches, 0 when none
CountryPrefixLen(s) ==
  LET Letter(c) == IsUpperAZ(c) \/ IsLowerAZ(c)
      Try(n) ==
        IF /\ n <= Len(s)
           /\ \A k \in 1..n : Letter(s[k])
        THEN LET w == RunLen(s, n + 1, IsSpace)
             IN IF n + w + 1 <= Len(s) /\ s[n + w + 1] = ":"
                THEN n + w + 1 + RunLen(s, n + w + 2, IsSpace) ELSE 0
        ELSE 0
  IN IF Try(3) > 0 THEN Try(3) ELSE Try(2)

\* /(4K|UHD|FHD|HD)/i
QualityTokenLenAt(s, p) ==
  IF MatchAtI(s, p, <<"4", "K">>) THEN 2
  ELSE IF MatchAtI(s, p, <<"U", "H", "D">>) THEN 3
  ELSE IF MatchAtI(s, p, <<"F", "H", "D">>) THEN 3
  ELSE IF MatchAtI(s, p, <<"H", "D">>) THEN 2
  ELSE 0
\* /\s*(4K|UHD|FHD|HD)\s*/i
PaddedQualityLenAt(s, p) == PaddedLenAt(s, p, QualityTokenLenAt)

\* /\s+/
SpacesLenAt(s, p) == IF p < 1 \/ p > Len(s) THEN 0 ELSE RunLen(s, p, IsSpace)


(***************************************************************************)
(* The classifier: one function per field of a record                      *)
(***************************************************************************)
languageCodeMap ==
  { <<<<"T", "R">>, <<"t", "u", "r">>>>, <<<<"T", "U", "R">>, <<"t", "u", "r">>>>, <<<<"T", "U", "R", "K", "C", "E">>, <<"t", "u", "r">>>>,
    <<<<"T", "U", "R", "K", "I", "Y", "E">>, <<"t", "u", "r">>>>,
    <<<<"A", "L", "B">>, <<"a", "l", "b">>>>, <<<<"A", "L">>, <<"a", "l", "b">>>>,
    <<<<"A", "Z">>, <<"a", "z", "e">>>>, <<<<"A", "Z", "E">>, <<"a", "z", "e">>>>,
    <<<<"D", "E">>, <<"d", "e", "u">>>>, <<<<"D", "E", "U">>, <<"d", "e", "u">>>>, <<<<"G", "E", "R">>, <<"d", "e", "u">>>>,
    <<<<"N", "L">>, <<"d", "u", "t">>>>, <<<<"D", "U", "T">>, <<"d", "u", "t">>>>, <<<<"N", "E", "D">>, <<"d", "u", "t">>>>,
    <<<<"E", "N">>, <<"e", "n", "g">>>>, <<<<"E", "N", "G">>, <<"e", "n", "g">>>>, <<<<"U", "K">>, <<"e", "n", "g">>>>,
    <<<<"U", "S">>, <<"e", "n", "g">>>>, <<<<"U", "S", "A">>, <<"e", "n", "g">>>>,
    <<<<"F", "R">>, <<"f", "r", "a">>>>, <<<<"F", "R", "A">>, <<"f", "r", "a">>>>,
    <<<<"P", "T">>, <<"p", "o", "r">>>>, <<<<"P", "O", "R">>, <<"p", "o", "r">>>> }
InLanguageCodeMap(code) == \E e \in languageCodeMap : e[1] = code
LanguageOfCode(code) == (CHOOSE e \in languageCodeMap : e[1] = code)[2]

\* detectLanguage returning null for an enclosed code that is not in the table
detectLanguageNoFallThrough(groupTitle) ==
  LET upperTitle == toUpperCase(groupTitle)
      p == FirstMatch(upperTitle, 1, LangCodeLenAt)
      code == SubSeq(upperTitle, p + 1, p + LangCodeLenAt(upperTitle, p) - 2)
  IN IF p > 0
     THEN IF InLanguageCodeMap(code) THEN LanguageOfCode(code) ELSE NULL
     ELSE IF includes(upperTitle, <<"T", "U", "R", "K", "C", "E">>) \/ includes(upperTitle, <<"T", "U", "R", "K", "I", "Y", "E">>)
          THEN <<"t", "u", "r">>
     ELSE NULL

detectLanguage(groupTitle) ==
  LET upperTitle == toUpperCase(groupTitle)
      p == FirstMatch(upperTitle, 1, LangCodeLenAt)
      code == SubSeq(upperTitle, p + 1, p + LangCodeLenAt(upperTitle, p) - 2)
  IN IF p > 0 /\ InLanguageCodeMap(code) THEN LanguageOfCode(code)
     ELSE IF includes(upperTitle, <<"T", "U", "R", "K", "C", "E">>) \/ includes(upperTitle, <<"T", "U", "R", "K", "I", "Y", "E">>)
          THEN <<"t", "u", "r">>
     ELSE NULL

\* detectMedia with the piped-code test first
detectMediaPipeFirst(groupTitle) ==
  LET upperTitle == toUpperCase(groupTitle)
  IN IF FirstMatch(upperTitle, 1, PipeCodeLenAt) > 0 THEN <<"O", "n", " ", "D", "e", "m", "a", "n", "d">>
     ELSE IF FirstMatch(upperTitle, 1, BracketCodeLenAt) > 0 THEN <<"L", "i", "v", "e">>
     ELSE IF includes(upperTitle, <<"R", "A", "D", "I", "O">>) \/ includes(upperTitle, <<"R", "A", "D", "Y", "O">>)
          THEN <<"L", "i", "v", "e">>
     ELSE NULL

detectMedia(groupTitle) ==
  LET upperTitle == toUpperCase(groupTitle)
  IN IF FirstMatch(upperTitle, 1, BracketCodeLenAt) > 0 THEN <<"L", "i", "v", "e">>
     ELSE IF includes(upperTitle, <<"R", "A", "D", "I", "O">>) \/ includes(upperTitle, <<"R", "A", "D", "Y", "O">>)
          THEN <<"L", "i", "v", "e">>
     ELSE IF FirstMatch(upperTitle, 1, PipeCodeLenAt) > 0 THEN <<"O", "n", " ", "D", "e", "m", "a", "n", "d">>
     ELSE NULL

\* detectType with the movie keywords checked before the series keywords
detectTypeMovieFirst(groupTitle, tvgName) ==
  LET upperTitle == toUpperCase(groupTitle)
      upperName == toUpperCase(tvgName)
  IN IF FirstMatch(upperName, 1, SeasonEpisodeLenAt) > 0 THEN <<"S", "e", "r", "i", "e", "s">>
     ELSE IF \/ includes(upperTitle, <<"F", "I", "L", "M">>) \/ includes(upperTitle, <<"M", "O", "V", "I", "E">>)
             \/ includes(upperTitle, <<"C", "I", "N", "E", "M", "A">>) \/ includes(upperTitle, <<"B", "I", "O", "S", "C", "O", "O", "P">>)
          THEN <<"M", "o", "v", "i", "e">>
     ELSE IF includes(upperTitle, <<"D", "I", "Z", "I">>) \/ includes(upperTitle, <<"S", "E", "R", "I", "E", "S">>)
          THEN <<"S", "e", "r", "i", "e", "s">>
     ELSE IF includes(upperTitle, <<"R", "A", "D", "I", "O">>) \/ includes(upperTitle, <<"R", "A", "D", "Y", "O">>)
          THEN <<"R", "a", "d", "i", "o">>
     ELSE IF FirstMatch(upperTitle, 1, BracketCodeLenAt) > 0 THEN <<"T", "V">>
     ELSE IF FirstMatch(upperTitle, 1, PipeCodeLenAt) > 0 THEN <<"M", "o", "v", "i", "e">>
     ELSE NULL

\* detectType with the episode token looked for in the name as written
detectTypeCaseSensitive(groupTitle, tvgName) ==
  LET upperTitle == toUpperCase(groupTitle)
  IN IF FirstMatch(tvgName, 1, SeasonEpisodeLenAt) > 0 THEN <<"S", "e", "r", "i", "e", "s">>
     ELSE IF includes(upperTitle, <<"D", "I", "Z", "I">>) \/ includes(upperTitle, <<"S", "E", "R", "I", "E", "S">>)
          THEN <<"S", "e", "r", "i", "e", "s">>
     ELSE IF \/ includes(upperTitle, <<"F", "I", "L", "M">>) \/ includes(upperTitle, <<"M", "O", "V", "I", "E">>)
             \/ includes(upperTitle, <<"C", "I", "N", "E", "M", "A">>) \/ includes(upperTitle, <<"B", "I", "O", "S", "C", "O", "O", "P">>)
          THEN <<"M", "o", "v", "i", "e">>
     ELSE IF includes(upperTitle, <<"R", "A", "D", "I", "O">>) \/ includes(upperTitle, <<"R", "A", "D", "Y", "O">>)
          THEN <<"R", "a", "d", "i", "o">>
     ELSE IF FirstMatch(upperTitle, 1, BracketCodeLenAt) > 0 THEN <<"T", "V">>
     ELSE IF FirstMatch(upperTitle, 1, PipeCodeLenAt) > 0 THEN <<"M", "o", "v", "i", "e">>
     ELSE NULL

detectType(groupTitle, tvgName) ==
  LET upperTitle == toUpperCase(groupTitle)
      upperName == toUpperCase(tvgName)
  IN IF FirstMatch(upperName, 1, SeasonEpisodeLenAt) > 0 THEN <<"S", "e", "r", "i", "e", "s">>
     ELSE IF includes(upperTitle, <<"D", "I", "Z", "I">>) \/ includes(upperTitle, <<"S", "E", "R", "I", "E", "S">>)
          THEN <<"S", "e", "r", "i", "e", "s">>
     ELSE IF \/ includes(upperTitle, <<"F", "I", "L", "M">>) \/ includes(upperTitle, <<"M", "O", "V", "I", "E">>)
             \/ includes(upperTitle, <<"C", "I", "N", "E", "M", "A">>) \/ includes(upperTitle, <<"B", "I", "O", "S", "C", "O", "O", "P">>)
          THEN <<"M", "o", "v", "i", "e">>
     ELSE IF includes(upperTitle, <<"R", "A", "D", "I", "O">>) \/ includes(upperTitle, <<"R", "A", "D", "Y", "O">>)
          THEN <<"R", "a", "d", "i", "o">>
     ELSE IF FirstMatch(upperTitle, 1, BracketCodeLenAt) > 0 THEN <<"T", "V">>
     ELSE IF FirstMatch(upperTitle, 1, PipeCodeLenAt) > 0 THEN <<"M", "o", "v", "i", "e">>
     ELSE NULL

\* detectSeasonEpisode with the season matched by /S(\d{2,})/i and the episode
\* by /E(\d{2,})/i, each on its own
detectSeasonEpisodeSeparately(tvgName) ==
  LET TagLenAt(s, p, tags) ==
        IF p >= 1 /\ p <= Len(s) /\ s[p] \in tags /\ RunLen(s, p + 1, IsDigit) >= 2
        THEN RunLen(s, p + 1, IsDigit) + 1 ELSE 0
      SLenAt(s, p) == TagLenAt(s, p, {"S", "s"})
      ELenAt(s, p) == TagLenAt(s, p, {"E", "e"})
      sp == FirstMatch(tvgName, 1, SLenAt)
      ep == FirstMatch(tvgName, 1, ELenAt)
  IN [season |-> IF sp = 0 THEN NULL
                 ELSE String(parseInt(SubSeq(tvgName, sp + 1, Len(tvgName)))),
      episode |-> IF ep = 0 THEN NULL
                  ELSE String(parseInt(SubSeq(tvgName, ep + 1, Len(tvgName))))]

detectSeasonEpisode(tvgName) ==
  LET p == FirstMatch(tvgName, 1, SeasonEpisodeILenAt)
      m == SeasonEpisodeAt(tvgName, p, {"S", "s"}, {"E", "e"})
  IN IF p > 0
     THEN [season |-> String(parseInt(SubSeq(tvgName, p + 1, p + m[1]))),
           episode |-> String(parseInt(SubSeq(tvgName, p + m[1] + 2,
                                              p + m[1] + 1 + m[2])))]
     ELSE [season |-> NULL, episode |-> NULL]

detectCategory(groupTitle) ==
  LET upperTitle == toUpperCase(groupTitle)
  IN IF includes(upperTitle, <<"S", "P", "O", "R">>) THEN <<"S", "p", "o", "r", "t", "s">>
     ELSE IF \/ includes(upperTitle, <<"S", "I", "N", "E", "M", "A">>) \/ includes(upperTitle, <<"F", "I", "L", "M">>)
             \/ includes(upperTitle, <<"C", "I", "N", "E", "M", "A">>) \/ includes(upperTitle, <<"B", "I", "O", "S", "C", "O", "O", "P">>)
             \/ includes(upperTitle, <<"M", "O", "V", "I", "E">>) THEN <<"M", "o", "v", "i", "e", "s">>
     ELSE IF \/ includes(upperTitle, <<"C", "O", "C", "U", "K">>) \/ includes(upperTitle, <<"K", "I", "D", "S">>)
             \/ includes(upperTitle, <<"K", "I", "N", "D", "E", "R">>) \/ includes(upperTitle, <<"E", "N", "F", "A", "N", "T">>)
          THEN <<"K", "i", "d", "s">>
     ELSE IF includes(upperTitle, <<"H", "A", "B", "E", "R">>) \/ includes(upperTitle, <<"N", "E", "W", "S">>)
          THEN <<"N", "e", "w", "s">>
     ELSE IF \/ includes(upperTitle, <<"B", "E", "L", "G", "E", "S", "E", "L">>)
             \/ includes(upperTitle, <<"D", "O", "C", "U", "M", "E", "N", "T", "A", "R", "E">>)
             \/ includes(upperTitle, <<"D", "O", "C", "U", "M", "A", "N", "T", "A", "I", "R", "E">>) THEN <<"D", "o", "c", "u", "m", "e", "n", "t", "a", "r", "y">>
     ELSE IF includes(upperTitle, <<"C", "L", "A", "S", "S", "I", "C">>) THEN <<"C", "l", "a", "s", "s", "i", "c">>
     ELSE IF includes(upperTitle, <<"R", "E", "L", "A", "X", "A", "T", "I", "O", "N">>) THEN <<"R", "e", "l", "a", "x", "a", "t", "i", "o", "n">>
     ELSE IF \/ includes(upperTitle, <<"M", "U", "Z", "I", "K">>) \/ includes(upperTitle, <<"M", "U", "S", "I", "Q", "U", "E">>)
             \/ includes(upperTitle, <<"M", "U", "Z", "I", "E", "K">>) THEN <<"M", "u", "s", "i", "c">>
     ELSE IF includes(upperTitle, <<"A", "D", "U", "L", "T">>) THEN <<"A", "d", "u", "l", "t">>
     ELSE IF includes(upperTitle, <<"D", "I", "L", " ", "E", "G", "I", "T", "I", "M", "I">>) THEN <<"L", "a", "n", "g", "u", "a", "g", "e", " ", "E", "d", "u", "c", "a", "t", "i", "o", "n">>
     ELSE NULL

\* detectQuality with the UHD check first
detectQualityUhdFirst(groupTitle) ==
  LET upperTitle == toUpperCase(groupTitle)
  IN IF includes(upperTitle, <<"U", "H", "D">>) THEN <<"U", "H", "D">>
     ELSE IF includes(upperTitle, <<"4", "K">>) THEN <<"4", "K">>
     ELSE IF includes(upperTitle, <<"F", "H", "D">>) THEN <<"F", "H", "D">>
     ELSE NULL

detectQuality(groupTitle) ==
  LET upperTitle == toUpperCase(groupTitle)
  IN IF includes(upperTitle, <<"4", "K">>) THEN <<"4", "K">>
     ELSE IF includes(upperTitle, <<"U", "H", "D">>) THEN <<"U", "H", "D">>
     ELSE IF includes(upperTitle, <<"F", "H", "D">>) THEN <<"F", "H", "D">>
     ELSE NULL

\* detectPlatform that answers with the keyword found leftmost in the text
\* when both hbo and netflix are present
detectPlatformLeftmost(groupTitle) ==
  LET lowerTitle == toLowerCase(groupTitle)
  IN IF includes(lowerTitle, <<"h", "b", "o">>) /\ includes(lowerTitle, <<"n", "e", "t", "f", "l", "i", "x">>)
     THEN IF indexOf(lowerTitle, <<"h", "b", "o">>) < indexOf(lowerTitle, <<"n", "e", "t", "f", "l", "i", "x">>)
          THEN <<"H", "B", "O", " ", "M", "a", "x">> ELSE <<"N", "e", "t", "f", "l", "i", "x">>
     ELSE IF includes(lowerTitle, <<"h", "b", "o">>) THEN <<"H", "B", "O", " ", "M", "a", "x">>
     ELSE IF includes(lowerTitle, <<"n", "e", "t", "f", "l", "i", "x">>) THEN <<"N", "e", "t", "f", "l", "i", "x">>
     ELSE NULL

detectPlatform(groupTitle) ==
  LET lowerTitle == toLowerCase(groupTitle)
  IN IF includes(lowerTitle, <<"a", "m", "a", "z", "o", "n">>) THEN <<"A", "m", "a", "z", "o", "n", " ", "P", "r", "i", "m", "e">>
     ELSE IF includes(lowerTitle, <<"b", "l", "u">>) THEN <<"B", "l", "u", "T", "V">>
     ELSE IF includes(lowerTitle, <<"d", "i", "s", "n", "e", "y">>) THEN <<"D", "i", "s", "n", "e", "y", "+">>
     ELSE IF includes(lowerTitle, <<"e", "x", "-", "x", "e", "n">>) \/ includes(lowerTitle, <<"e", "x", "x", "e", "n">>)
          THEN <<"E", "x", "x", "e", "n">>
     ELSE IF includes(lowerTitle, <<"g", "a", "i", "n">>) THEN <<"G", "A", "I", "N">>
     ELSE IF includes(lowerTitle, <<"h", "b", "o">>) THEN <<"H", "B", "O", " ", "M", "a", "x">>
     ELSE IF \/ includes(lowerTitle, <<"n", "e", "t", "f", "l", "i", "x">>) \/ includes(lowerTitle, <<"n", "e", "t", "f", "l", "i", "i", "x">>)
             \/ includes(lowerTitle, <<"n", "e", "t", "f", "i", "l", "i", "x">>) THEN <<"N", "e", "t", "f", "l", "i", "x">>
     ELSE IF includes(lowerTitle, <<"p", "a", "r", "a", "m", "o", "u", "n", "t", "-", "p", "l", "u", "s">>) THEN <<"P", "a", "r", "a", "m", "o", "u", "n", "t", " ", "P", "l", "u", "s">>
     ELSE IF includes(lowerTitle, <<"t", "a", "b", "i", "i">>) THEN <<"T", "a", "b", "i", "i">>
     ELSE IF includes(lowerTitle, <<"y", "e", "s", "i", "l", "c", "a", "m">>) THEN <<"Y", "e", "s", "i", "l", "c", "a", "m">>
     ELSE IF includes(lowerTitle, <<"a", "p", "p", "l", "e">>) THEN <<"A", "p", "p", "l", "e", " ", "T", "V">>
     ELSE NULL

\* detectYear with the group-title checked first
detectYearTitleFirst(groupTitle, tvgName) ==
  LET np == FirstMatch(tvgName, 1, ParenYearLenAt)
      tp == FirstMatch(groupTitle, 1, TitleYearLenAt)
  IN IF tp > 0 THEN SubSeq(groupTitle, tp, tp + 3)
     ELSE IF np > 0 THEN SubSeq(tvgName, np + 1, np + 4)
     ELSE NULL

detectYear(groupTitle, tvgName) ==
  LET np == FirstMatch(tvgName, 1, ParenYearLenAt)
      tp == FirstMatch(groupTitle, 1, TitleYearLenAt)
  IN IF np > 0 THEN SubSeq(tvgName, np + 1, np + 4)
     ELSE IF tp > 0 THEN SubSeq(groupTitle, tp, tp + 3)
     ELSE NULL

extractName(tvgName) ==
  LET n1 == ReplaceAll(tvgName, 1, SeasonEpisodeILenAt, <<>>)
      n2 == ReplaceAll(n1, 1, PaddedYearLenAt, <<>>)
      n3 == ReplaceAll(n2, 1, PaddedCodeLenAt, <<>>)
      n4 == SubSeq(n3, CountryPrefixLen(n3) + 1, Len(n3))
      n5 == ReplaceAll(n4, 1, PaddedQualityLenAt, <<>>)
      name == ReplaceAll(trim(n5), 1, SpacesLenAt, <<" ">>)
  IN IF name = <<>> THEN NULL ELSE name


(***************************************************************************)
(* parseM3U                                                                *)
(***************************************************************************)
\* content.split('\n')
RECURSIVE split(_)
split(s) ==
  LET p == indexOf(s, <<"\n">>)
  IN IF p = 0 THEN <<s>> ELSE <<SubSeq(s, 1, p - 1)>> \o split(SubSeq(s, p + 1, Len(s)))

RECURSIVE FilterNonEmpty(_)
FilterNonEmpty(ls) ==
  IF ls = <<>> THEN <<>>
  ELSE IF Head(ls) = <<>> THEN FilterNonEmpty(Tail(ls))
  ELSE <<Head(ls)>> \o FilterNonEmpty(Tail(ls))

\* content.split('\n').map(line => line.trim()).filter(line => line)
TrimmedLines(text) ==
  LET raw == split(text)
  IN FilterNonEmpty([k \in 1..Len(raw) |-> trim(raw[k])])

\* line.match(/<key>="([^"]*)"/): the captured value, NULL when no match
AttrMatch(line, key) ==
  LET open == key \o <<"=", "\"">>
      p == indexOf(line, open)
      from == p + Len(open)
      qs == {q \in from..Len(line) : line[q] = "\""}
  IN IF p = 0 \/ qs = {} THEN NULL ELSE SubSeq(line, from, Min(qs) - 1)

\* EntryId with % written for /
EntryIdModulo(which, idx) ==
  IF which = "cjs" THEN <<idx + 1, 1>> ELSE <<(idx % 2) + 1, 1>>

\* the id of the record made from lines[idx]; a number is <<numerator, denominator>>
\* in lowest terms: (idx / 2) + 1 in m3uParser.ts, idx + 1 in m3u-to-json.cjs
\* EntryId continuing from a counter that outlives the call
EntryIdCounting(which, idx) ==
  IF previous.returned THEN <<idx + 1 + Len(previous.result), 1>> ELSE <<idx + 1, 1>>

EntryId(which, idx) ==
  IF which = "cjs" THEN <<idx + 1, 1>>
  ELSE IF idx % 2 = 0 THEN <<(idx \div 2) + 1, 1>>
  ELSE <<idx + 2, 2>>

\* BuildEntry whose standalone copy takes the url without trimmed lines in
\* mind: the line after the #EXTINF line, or null when there is none
BuildEntryNullUrl(which, ls, idx) ==
  LET line == ls[idx + 1]
      groupTitleMatch == AttrMatch(line, <<"g", "r", "o", "u", "p", "-", "t", "i", "t", "l", "e">>)
      tvgNameMatch == AttrMatch(line, <<"t", "v", "g", "-", "n", "a", "m", "e">>)
      tvgLogoMatch == AttrMatch(line, <<"t", "v", "g", "-", "l", "o", "g", "o">>)
      groupTitle == IF groupTitleMatch # NULL THEN groupTitleMatch ELSE <<>>
      tvgName == IF tvgNameMatch # NULL THEN tvgNameMatch ELSE <<>>
      url == IF idx + 2 <= Len(ls) THEN ls[idx + 2]
             ELSE IF which = "cjs" THEN NULL ELSE <<>>
      se == detectSeasonEpisode(tvgName)
  IN [id |-> EntryId(which, idx),
      name |-> extractName(tvgName),
      language |-> detectLanguage(groupTitle),
      media |-> detectMedia(groupTitle),
      type |-> detectType(groupTitle, tvgName),
      category |-> detectCategory(groupTitle),
      quality |-> detectQuality(groupTitle),
      platform |-> detectPlatform(groupTitle),
      year |-> detectYear(groupTitle, tvgName),
      season |-> se.season,
      episode |-> se.episode,
      logo |-> tvgLogoMatch,
      url |-> url,
      source |-> <<"I", "P", "T", "V">>]

\* the record pushed for the #EXTINF line lines[idx] (0-based)
BuildEntry(which, ls, idx) ==
  LET line == ls[idx + 1]
      groupTitleMatch == AttrMatch(line, <<"g", "r", "o", "u", "p", "-", "t", "i", "t", "l", "e">>)
      tvgNameMatch == AttrMatch(line, <<"t", "v", "g", "-", "n", "a", "m", "e">>)
      tvgLogoMatch == AttrMatch(line, <<"t", "v", "g", "-", "l", "o", "g", "o">>)
      groupTitle == IF groupTitleMatch # NULL THEN groupTitleMatch ELSE <<>>
      tvgName == IF tvgNameMatch # NULL THEN tvgNameMatch ELSE <<>>
      url == IF idx + 2 <= Len(ls) THEN ls[idx + 2] ELSE <<>>
      se == detectSeasonEpisode(tvgName)
  IN [id |-> EntryId(which, idx),
      name |-> extractName(tvgName),
      language |-> detectLanguage(groupTitle),
      media |-> detectMedia(groupTitle),
      type |-> detectType(groupTitle, tvgName),
      category |-> detectCategory(groupTitle),
      quality |-> detectQuality(groupTitle),
      platform |-> detectPlatform(groupTitle),
      year |-> detectYear(groupTitle, tvgName),
      season |-> se.season,
      episode |-> se.episode,
      logo |-> tvgLogoMatch,
      url |-> url,
      source |-> <<"I", "P", "T", "V">>]

\* isValidM3U that accepts only a text that starts with the header
isValidM3UHeaderOnly(text) == startsWith(trim(text), <<"#", "E", "X", "T", "M", "3", "U">>)

\* content.trim().startsWith('#EXTM3U') || content.includes('#EXTINF:')
isValidM3U(text) ==
  startsWith(trim(text), <<"#", "E", "X", "T", "M", "3", "U">>) \/ includes(text, <<"#", "E", "X", "T", "I", "N", "F", ":">>)

\* const lines = ...; const entries = []; i = 0
ParseStart ==
  /\ pc = "start"
  /\ lines' = TrimmedLines(content)
  /\ i' = 0
  /\ entries' = <<>>
  /\ pc' = "loop"
  /\ UNCHANGED <<groupVars, syncVars, appVars>>
  /\ UNCHANGED <<impl, attrs, content, previous>>

\* one iteration on a line that starts with #EXTINF: (the record is pushed,
\* i++ skips the next line and the loop's own i++ follows)
ParseEntry ==
  /\ pc = "loop"
  /\ i < Len(lines)
  /\ startsWith(lines[i + 1], <<"#", "E", "X", "T", "I", "N", "F", ":">>)
  /\ entries' = Append(entries, BuildEntry(impl, lines, i))
  /\ i' = i + 2
  /\ UNCHANGED <<groupVars, syncVars, appVars>>
  /\ UNCHANGED <<impl, attrs, content, lines, pc, previous>>

\* one iteration on any other line
ParseSkip ==
  /\ pc = "loop"
  /\ i < Len(lines)
  /\ ~startsWith(lines[i + 1], <<"#", "E", "X", "T", "I", "N", "F", ":">>)
  /\ i' = i + 1
  /\ UNCHANGED <<groupVars, syncVars, appVars>>
  /\ UNCHANGED <<impl, attrs, content, lines, entries, pc, previous>>

\* the loop ends: return entries
ParseReturn ==
  /\ pc = "loop"
  /\ i >= Len(lines)
  /\ pc' = "done"
  /\ UNCHANGED <<groupVars, syncVars, appVars>>
  /\ UNCHANGED <<impl, attrs, content, lines, i, entries, previous>>

ParseNext == ParseStart \/ ParseEntry \/ ParseSkip \/ ParseReturn

\* the caller keeps the list returned and calls parseM3U on the same text again
ParseAgain ==
  /\ pc = "done"
  /\ ~previous.returned
  /\ previous' = [returned |-> TRUE, result |-> entries]
  /\ pc' = "start"
  /\ UNCHANGED <<groupVars, syncVars, appVars>>
  /\ UNCHANGED <<impl, attrs, content, lines, i, entries>>

(***************************************************************************)
(* syncIPTVData (iptvSync.ts), iptvStorage and the content cache           *)
(***************************************************************************)
\* a value that may be null: None is null, Some(v) is the value v
None == [none |-> TRUE]
Some(v) == [some |-> v]

\* parseM3U as one call: the loop from line idx on, acc being the records so far
RECURSIVE ParseLoop(_, _, _, _)
ParseLoop(which, ls, idx, acc) ==
  IF idx >= Len(ls) THEN acc
  ELSE IF startsWith(ls[idx + 1], <<"#", "E", "X", "T", "I", "N", "F", ":">>)
       THEN ParseLoop(which, ls, idx + 2, Append(acc, BuildEntry(which, ls, idx)))
       ELSE ParseLoop(which, ls, idx + 1, acc)
parseM3U(which, text) == ParseLoop(which, TrimmedLines(text), 0, <<>>)

\* localForage store of iptvStorage with none of its four keys set
EmptyStore == [content |-> None, metadata |-> None, lastSync |-> None, raw |-> None]
\* DEFAULT_SETTINGS, the fields the sync and the loader read
DefaultSettings == [iptvEnabled |-> FALSE, iptvLastSync |-> None]
\* loadContentData is not running
LoadIdle == [pc |-> "idle", data |-> None, result |-> None]

\* no syncIPTVData call has been made, nothing is stored, nothing is cached
SyncIdle ==
  /\ calls = <<>>
  /\ store = EmptyStore
  /\ settings = DefaultSettings
  /\ cachedData = None
  /\ load = LoadIdle
  /\ clock = 0

\* no watch-history call has been made
NoWatch == [op |-> "none", n |-> 0]
\* the watch history has never been written
WatchIdle ==
  /\ history = None
  /\ watch = NoWatch

\* the downloadState object before file:download creates it
NoDownload ==
  [paused |-> FALSE, canceled |-> FALSE, request |-> "none", response |-> "none",
   fileStream |-> "none", buffer |-> <<>>, downloadId |-> NULL]
\* no file at savePath
NoFile == [exists |-> FALSE, data |-> <<>>]
\* no file:download IPC call has returned
NoReply == [op |-> "none", success |-> FALSE]
\* file:download has not been called
DownloadIdle ==
  /\ activeDownloads = {}
  /\ downloadState = NoDownload
  /\ incoming = <<>>
  /\ received = <<>>
  /\ disk = NoFile
  /\ status = "none"
  /\ dpc = "idle"
  /\ reply = NoReply

AppIdle == WatchIdle /\ DownloadIdle

(***************************************************************************)
(* Playlists given to parseM3U                                             *)
(***************************************************************************)
RECURSIVE join(_)
\* the lines joined by "\n"
join(ls) ==
  IF ls = <<>> THEN <<>>
  ELSE IF Len(ls) = 1 THEN ls[1]
  ELSE ls[1] \o <<"\n">> \o join(Tail(ls))

MaxLines == 4

HeaderLine == <<"#", "E", "X", "T", "M", "3", "U">>
ScenarioBLine ==
  <<"#", "E", "X", "T", "I", "N", "F", ":", "-", "1", " ", "g", "r", "o", "u", "p", "-", "t", "i", "t", "l", "e", "=", "\"", "D", "I", "Z", "I", "\"", " ", "t", "v", "g", "-", "n", "a", "m", "e", "=", "\"", "B", "r", "e", "a", "k", "i", "n", "g", " ", "B", "a", "d", " ", "S", "0", "1", "E", "0", "5", "\"", " ", "t", "v", "g", "-", "l", "o", "g", "o", "=", "\"", "\"", ",", "X">>
ScenarioDLine == <<"#", "E", "X", "T", "I", "N", "F", ":", "-", "1", ",", "X">>
UrlLine == <<"h", "t", "t", "p", ":", "/", "/", "e", "x", "a", "m", "p", "l", "e", ".", "c", "o", "m", "/", "l", "i", "v", "e", "1">>
PaddedUrlLine == <<" ", "h", "t", "t", "p", ":", "/", "/", "e", "x", "a", "m", "p", "l", "e", ".", "c", "o", "m", "/", "e", "p", "5", "\r">>
BlankLine == <<" ", " ">>

RawLines ==
  {HeaderLine, ScenarioBLine, ScenarioDLine, UrlLine, PaddedUrlLine, BlankLine}

BoundedSeq(S, n) == UNION {[1..m -> S] : m \in 0..n}

NoAttrs == [groupTitle |-> <<>>, tvgName |-> <<>>]

\* any playlist of at most MaxLines raw lines, parsed by either copy of parseM3U
Init ==
  /\ impl \in {"ts", "cjs"}
  /\ attrs = NoAttrs
  /\ \E raw \in BoundedSeq(RawLines, MaxLines) : content = join(raw)
  /\ lines = <<>>
  /\ i = 0
  /\ entries = <<>>
  /\ pc = "start"
  /\ previous = NoCall
  /\ items = <<>>
  /\ groups = <<>>
  /\ gi = 0
  /\ gpc = "idle"
  /\ view = NoView
  /\ SyncIdle
  /\ AppIdle

Next == ParseNext

Spec == Init /\ [][Next]_vars

(***************************************************************************)
(* One-entry playlists over many group-title and tvg-name values, to       *)
(* exercise the classifier through parseM3U                                *)
(***************************************************************************)
RECURSIVE concat(_)
concat(ts) == IF ts = <<>> THEN <<>> ELSE Head(ts) \o concat(Tail(ts))

MaxTitleTokens == 3
MaxNameTokens == 3

TitleTokens ==
  {<<"[", "T", "R", "]">>, <<"|", "N", "L", "|">>, <<"[", "X", "X", "]">>, <<"[", "d", "e", "|">>, <<"T", "U", "R", "K", "C", "E">>, <<"D", "I", "Z", "I">>, <<"f", "i", "l", "m">>, <<"R", "A", "D", "Y", "O">>}
NameTokens ==
  {<<"T", "R", "T", " ">>, <<" ", "S", "p", "o", "r">>, <<"F", "H", "D">>, <<"M", "e", "h", "d", "i">>, <<"S", "0", "1", "E", "0", "0", "5">>, <<"s", "1", "e", "0", "5">>, <<"(", "2", "0", "2", "3", ")">>}

GroupTitles == {concat(ts) : ts \in BoundedSeq(TitleTokens, MaxTitleTokens)}
TvgNames == {concat(ts) : ts \in BoundedSeq(NameTokens, MaxNameTokens)}

ScenarioA == [groupTitle |-> <<"[", "T", "R", "]">>, tvgName |-> <<"T", "R", ":", "K", "a", "n", "a", "l", " ", "7">>]
ScenarioB == [groupTitle |-> <<"D", "I", "Z", "I">>, tvgName |-> <<"B", "r", "e", "a", "k", "i", "n", "g", " ", "B", "a", "d", " ", "S", "0", "1", "E", "0", "5">>]
ScenarioC == [groupTitle |-> <<"S", "I", "N", "E", "M", "A", " ", "|", " ", "N", "E", "T", "F", "L", "I", "X", " ", "|", " ", "4", "K", " ", "|", " ", "2", "0", "2", "4">>,
              tvgName |-> <<"T", "h", "e", " ", "G", "r", "e", "a", "t", " ", "M", "o", "v", "i", "e", " ", "(", "2", "0", "2", "3", ")">>]

\* group-titles naming qualities and platforms, tvg-names with episode tokens
QualityTokens == {<<"4", "K">>, <<"u", "h", "d">>, <<"U", "H", "D", " ">>, <<"F", "H", "D">>, <<" ", "H", "D">>}
PlatformTokens == {<<"h", "b", "o">>, <<"H", "B", "O", " ">>, <<"n", "e", "t", "f", "l", "i", "x">>, <<"N", "E", "T", "F", "L", "I", "X">>, <<"A", "g", "a", "i", "n", " ">>}
EpisodeTokens == {<<"S", "0", "1", "E", "0", "0", "5">>, <<"s", "1", "0", "e", "1", "0", "0">>, <<"S", "0", "0", "E", "0", "0">>, <<"S", "1", "E", "0", "5">>, <<"S", "0", "2", "E", "1">>, <<" ", "x">>}

QualityTitles == {concat(ts) : ts \in BoundedSeq(QualityTokens, MaxTitleTokens)}
PlatformTitles == {concat(ts) : ts \in BoundedSeq(PlatformTokens, MaxTitleTokens)}
EpisodeNames == {concat(ts) : ts \in BoundedSeq(EpisodeTokens, MaxNameTokens)}

ClassifyInputs ==
  {ScenarioA, ScenarioB, ScenarioC}
  \cup [groupTitle : GroupTitles, tvgName : {<<>>, ScenarioB.tvgName}]
  \cup [groupTitle : {<<>>, ScenarioA.groupTitle, ScenarioC.groupTitle},
        tvgName : TvgNames]
  \cup [groupTitle : QualityTitles \cup PlatformTitles, tvgName : {ScenarioC.tvgName}]
  \cup [groupTitle : {ScenarioB.groupTitle}, tvgName : EpisodeNames]

\* the #EXTINF line of an entry with the given attribute values
ExtinfLine(a) ==
  <<"#", "E", "X", "T", "I", "N", "F", ":", "-", "1", " ", "g", "r", "o", "u", "p", "-", "t", "i", "t", "l", "e", "=", "\"">> \o a.groupTitle \o <<"\"", " ", "t", "v", "g", "-", "n", "a", "m", "e", "=", "\"">> \o a.tvgName
    \o <<"\"", " ", "t", "v", "g", "-", "l", "o", "g", "o", "=", "\"", "h", "t", "t", "p", ":", "/", "/", "x", "/", "l", "o", "g", "o", ".", "p", "n", "g", "\"", ",", "X">>

InitClassify ==
  /\ impl = "ts"
  /\ attrs \in ClassifyInputs
  /\ content = join(<<HeaderLine, ExtinfLine(attrs), UrlLine>>)
  /\ lines = <<>>
  /\ i = 0
  /\ entries = <<>>
  /\ pc = "start"
  /\ previous = NoCall
  /\ items = <<>>
  /\ groups = <<>>
  /\ gi = 0
  /\ gpc = "idle"
  /\ view = NoView
  /\ SyncIdle
  /\ AppIdle

SpecClassify == InitClassify /\ [][Next]_vars

\* the same playlists, and the playlists of the three scenarios, parsed twice
InitTwice ==
  /\ impl \in {"ts", "cjs"}
  /\ \/ /\ attrs = NoAttrs
        /\ \E raw \in BoundedSeq(RawLines, MaxLines) : content = join(raw)
     \/ /\ attrs \in {ScenarioA, ScenarioB, ScenarioC}
        /\ content = join(<<HeaderLine, ExtinfLine(attrs), UrlLine>>)
  /\ lines = <<>>
  /\ i = 0
  /\ entries = <<>>
  /\ pc = "start"
  /\ previous = NoCall
  /\ items = <<>>
  /\ groups = <<>>
  /\ gi = 0
  /\ gpc = "idle"
  /\ view = NoView
  /\ SyncIdle
  /\ AppIdle

NextTwice == ParseNext \/ ParseAgain

SpecTwice == InitTwice /\ [][NextTwice]_vars


(***************************************************************************)
(* groupSeriesByShow (seriesGrouping.ts)                                   *)
(***************************************************************************)
\* a || b on strings: null and the empty string are falsy
OrElse(a, b) == IF a = NULL \/ a = <<>> THEN b ELSE a
\* a value inside a template literal: null prints as "null"
Interpolate(v) == IF v = NULL THEN <<"n", "u", "l", "l">> ELSE v
\* a number <<numerator, denominator>> inside a template literal
NumberToString(x) ==
  IF x[2] = 1 THEN String(x[1]) ELSE String(x[1] \div 2) \o <<".", "5">>

\* SeriesKey without the language
SeriesKeyWithoutLanguage(item) ==
  Interpolate(item.name) \o <<"-">> \o Interpolate(item.type)

\* `${item.name}-${item.language || 'no-lang'}-${item.type}`
SeriesKey(item) ==
  Interpolate(item.name) \o <<"-">> \o OrElse(item.language, <<"n", "o", "-", "l", "a", "n", "g">>) \o <<"-">>
    \o Interpolate(item.type)
\* `${item.type}-${item.id}`
SingleKey(item) == Interpolate(item.type) \o <<"-">> \o NumberToString(item.id)

HasKey(gs, key) == \E k \in 1..Len(gs) : gs[k].key = key
KeyIndex(gs, key) == CHOOSE k \in 1..Len(gs) : gs[k].key = key
\* Map.prototype.set: a new key is appended, an existing key keeps its place
MapSet(gs, key, value) ==
  IF HasKey(gs, key)
  THEN [gs EXCEPT ![KeyIndex(gs, key)] = value]
  ELSE Append(gs, value)

\* IsNewer without the test that the seasons are equal
IsNewerSeasonOrEpisode(current, item) ==
  LET currentSeason == parseInt(OrElse(current.season, <<"0">>))
      currentEpisode == parseInt(OrElse(current.episode, <<"0">>))
      newSeason == parseInt(OrElse(item.season, <<"0">>))
      newEpisode == parseInt(OrElse(item.episode, <<"0">>))
  IN newSeason > currentSeason \/ newEpisode > currentEpisode

\* the test that makes item the new representative in place of current
IsNewer(current, item) ==
  LET currentSeason == parseInt(OrElse(current.season, <<"0">>))
      currentEpisode == parseInt(OrElse(current.episode, <<"0">>))
      newSeason == parseInt(OrElse(item.season, <<"0">>))
      newEpisode == parseInt(OrElse(item.episode, <<"0">>))
  IN \/ newSeason > currentSeason
     \/ (newSeason = currentSeason /\ newEpisode > currentEpisode)

\* the forEach body for an item whose type is not "Series"
AddSingle(gs, item) ==
  MapSet(gs, SingleKey(item),
         [key |-> SingleKey(item), representative |-> item, allItems |-> <<item>>,
          seasons |-> <<>>])

\* the forEach body for a "Series" item
AddSeries(gs, item) ==
  LET key == SeriesKey(item)
  IN IF ~HasKey(gs, key)
     THEN Append(gs, [key |-> key, representative |-> item, allItems |-> <<item>>,
                      seasons |-> <<>>])
     ELSE LET k == KeyIndex(gs, key)
              group == gs[k]
          IN [gs EXCEPT ![k] =
                [group EXCEPT
                   !.allItems = Append(group.allItems, item),
                   !.representative =
                      IF IsNewer(group.representative, item) THEN item
                      ELSE group.representative]]

\* SortByEpisodeDesc that leaves the bucket in the order the items arrived
SortByEpisodeKeepOrder(eps) == eps

\* Array.prototype.sort with (a, b) => episodeB - episodeA: stable, descending
RECURSIVE InsertByEpisode(_, _)
InsertByEpisode(sorted, item) ==
  IF sorted = <<>> THEN <<item>>
  ELSE IF parseInt(OrElse(item.episode, <<"0">>))
            > parseInt(OrElse(Head(sorted).episode, <<"0">>))
       THEN <<item>> \o sorted
       ELSE <<Head(sorted)>> \o InsertByEpisode(Tail(sorted), item)
RECURSIVE SortByEpisodeDesc(_)
SortByEpisodeDesc(eps) ==
  IF eps = <<>> THEN <<>>
  ELSE InsertByEpisode(SortByEpisodeDesc(SubSeq(eps, 1, Len(eps) - 1)), eps[Len(eps)])

\* the season buckets of a group's items, in order of first appearance
RECURSIVE Buckets(_, _)
Buckets(all, acc) ==
  IF all = <<>> THEN acc
  ELSE LET item == Head(all)
           seasonKey == OrElse(item.season, <<"u", "n", "k", "n", "o", "w", "n">>)
           has == \E k \in 1..Len(acc) : acc[k].season = seasonKey
           at == CHOOSE k \in 1..Len(acc) : acc[k].season = seasonKey
       IN Buckets(Tail(all),
                  IF has
                  THEN [acc EXCEPT ![at].episodes = Append(acc[at].episodes, item)]
                  ELSE Append(acc, [season |-> seasonKey, episodes |-> <<item>>]))

SeasonsOf(group) ==
  LET bs == Buckets(group.allItems, <<>>)
  IN [k \in 1..Len(bs) |->
        [season |-> bs[k].season, episodes |-> SortByEpisodeDesc(bs[k].episodes)]]

\* items.forEach, one item whose type is not "Series"
GroupSingleItem ==
  /\ gpc = "forEach"
  /\ gi < Len(items)
  /\ items[gi + 1].type # <<"S", "e", "r", "i", "e", "s">>
  /\ groups' = AddSingle(groups, items[gi + 1])
  /\ gi' = gi + 1
  /\ UNCHANGED <<items, gpc, view>>
  /\ UNCHANGED <<parseVars, syncVars, appVars>>

\* items.forEach, one "Series" item
GroupSeriesItem ==
  /\ gpc = "forEach"
  /\ gi < Len(items)
  /\ items[gi + 1].type = <<"S", "e", "r", "i", "e", "s">>
  /\ groups' = AddSeries(groups, items[gi + 1])
  /\ gi' = gi + 1
  /\ UNCHANGED <<items, gpc, view>>
  /\ UNCHANGED <<parseVars, syncVars, appVars>>

\* groups.forEach: the season buckets of every group, sorted; return groups
OrganizeSeasons ==
  /\ gpc = "forEach"
  /\ gi = Len(items)
  /\ groups' = [k \in 1..Len(groups) |->
                  [groups[k] EXCEPT !.seasons = SeasonsOf(groups[k])]]
  /\ gpc' = "done"
  /\ UNCHANGED <<items, gi, view>>
  /\ UNCHANGED <<parseVars, syncVars, appVars>>

\* the null that getGroupForItem returns in place of a group
NoGroup == [key |-> NULL]

\* getGroupForItem(item, groups): groups.get(key) || null
getGroupForItem(item, gs) ==
  LET key == IF item.type = <<"S", "e", "r", "i", "e", "s">> THEN SeriesKey(item) ELSE SingleKey(item)
  IN IF HasKey(gs, key) THEN gs[KeyIndex(gs, key)] ELSE NoGroup

\* parseInt(season) || 0: NaN (no leading digit) counts as 0
SeasonNumber(season) ==
  IF season # <<>> /\ IsDigit(season[1]) THEN parseInt(season) ELSE 0

\* Array.prototype.sort with (a, b) => seasonB - seasonA: stable, descending
RECURSIVE InsertBySeason(_, _)
InsertBySeason(sorted, bucket) ==
  IF sorted = <<>> THEN <<bucket>>
  ELSE IF SeasonNumber(bucket.season) > SeasonNumber(Head(sorted).season)
       THEN <<bucket>> \o sorted
       ELSE <<Head(sorted)>> \o InsertBySeason(Tail(sorted), bucket)
RECURSIVE SortBySeasonDesc(_)
SortBySeasonDesc(bs) ==
  IF bs = <<>> THEN <<>>
  ELSE InsertBySeason(SortBySeasonDesc(SubSeq(bs, 1, Len(bs) - 1)), bs[Len(bs)])

\* getSortedSeasons with the buckets left in insertion order
getSortedSeasonsUnsorted(group) ==
  [k \in 1..Len(group.seasons) |->
     [season |-> group.seasons[k].season, episodes |-> group.seasons[k].episodes]]

\* getSortedSeasons(group): the entries of group.seasons, sorted
getSortedSeasons(group) ==
  SortBySeasonDesc([k \in 1..Len(group.seasons) |->
     [season |-> group.seasons[k].season, episodes |-> group.seasons[k].episodes]])

\* a caller looks up the group of one item of the list (getGroupForItem)
GroupForItem ==
  /\ gpc = "done"
  /\ \E k \in 1..Len(items) :
       view' = [op |-> "getGroupForItem", item |-> items[k],
                result |-> getGroupForItem(items[k], groups)]
  /\ UNCHANGED <<items, groups, gi, gpc>>
  /\ UNCHANGED <<parseVars, syncVars, appVars>>

\* a caller lists the seasons of one group (getSortedSeasons)
SortedSeasons ==
  /\ gpc = "done"
  /\ \E k \in 1..Len(groups) :
       view' = [op |-> "getSortedSeasons", group |-> groups[k],
                result |-> getSortedSeasons(groups[k])]
  /\ UNCHANGED <<items, groups, gi, gpc>>
  /\ UNCHANGED <<parseVars, syncVars, appVars>>

GroupNext ==
  GroupSingleItem \/ GroupSeriesItem \/ OrganizeSeasons \/ GroupForItem \/ SortedSeasons

(***************************************************************************)
(* Lists given to groupSeriesByShow                                        *)
(***************************************************************************)
MaxItems == 4

\* a record of the catalog with the fields the grouper reads
Item(id, name, language, type, season, episode) ==
  [id |-> <<id, 1>>, name |-> name, language |-> language, media |-> <<"O", "n", " ", "D", "e", "m", "a", "n", "d">>,
   type |-> type, category |-> NULL, quality |-> NULL, platform |-> NULL,
   year |-> NULL, season |-> season, episode |-> episode, logo |-> NULL,
   url |-> <<"h", "t", "t", "p", ":", "/", "/", "e", "/">> \o String(id), source |-> <<"I", "P", "T", "V">>]

ItemPool ==
  { Item(1, <<"A">>, <<"t", "u", "r">>, <<"S", "e", "r", "i", "e", "s">>, <<"1">>, <<"1">>),
    Item(2, <<"A">>, <<"t", "u", "r">>, <<"S", "e", "r", "i", "e", "s">>, <<"1">>, <<"5">>),
    Item(3, <<"A">>, <<"t", "u", "r">>, <<"S", "e", "r", "i", "e", "s">>, <<"2">>, <<"1">>),
    Item(4, <<"A">>, <<"t", "u", "r">>, <<"S", "e", "r", "i", "e", "s">>, <<"2">>, <<"1">>),
    Item(5, <<"A">>, <<"t", "u", "r">>, <<"S", "e", "r", "i", "e", "s">>, <<"1", "0">>, <<"2">>),
    Item(6, <<"A">>, <<"t", "u", "r">>, <<"S", "e", "r", "i", "e", "s">>, NULL, <<"1", "2">>),
    Item(7, <<"B">>, NULL, <<"S", "e", "r", "i", "e", "s">>, <<"1">>, <<"1">>),
    Item(8, <<"M">>, NULL, <<"M", "o", "v", "i", "e">>, NULL, NULL) }

\* normalizePlexItem: id = idOffset + the digits of the item's key; Plex gives
\* no language, and season/episode only to episodes
PlexItem(idOffset, ratingKey, name, type, season, episode) ==
  [id |-> <<idOffset + ratingKey, 1>>, name |-> name, language |-> NULL,
   media |-> <<"O", "n", " ", "D", "e", "m", "a", "n", "d">>, type |-> type, category |-> NULL, quality |-> NULL,
   platform |-> <<"P", "l", "e", "x">>, year |-> NULL, season |-> season, episode |-> episode,
   logo |-> <<>>, url |-> <<"h", "t", "t", "p", ":", "/", "/", "p", "l", "e", "x", "/">> \o String(ratingKey), source |-> <<"P", "l", "e", "x">>]

\* idOffset of syncPlexData: starts at 1000000 and grows by one per item
PlexIdOffset == 1000000

\* a catalog as loadContentData combines it: IPTV records and Plex records
CatalogPool ==
  { Item(2, <<"A">>, <<"t", "u", "r">>, <<"S", "e", "r", "i", "e", "s">>, <<"1">>, <<"5">>),
    Item(5, <<"A">>, <<"t", "u", "r">>, <<"S", "e", "r", "i", "e", "s">>, <<"1", "0">>, <<"2">>),
    Item(7, <<"B">>, NULL, <<"S", "e", "r", "i", "e", "s">>, <<"1">>, <<"1">>),
    Item(9, <<"B">>, <<"t", "u", "r">>, <<"S", "e", "r", "i", "e", "s">>, <<"1">>, <<"1">>),
    Item(10, <<"B", "-", "t", "u", "r">>, NULL, <<"S", "e", "r", "i", "e", "s">>, <<"2">>, <<"3">>),
    PlexItem(PlexIdOffset, 101, <<"B">>, <<"S", "e", "r", "i", "e", "s">>, <<"3">>, <<"1">>),
    PlexItem(PlexIdOffset + 1, 101, <<"P">>, <<"M", "o", "v", "i", "e">>, NULL, NULL),
    PlexItem(PlexIdOffset + 2, 100, <<"Q">>, <<"M", "o", "v", "i", "e">>, NULL, NULL) }

\* the lists of at most n distinct items of S, in every order
Orderings(S, n) ==
  {s \in BoundedSeq(S, n) : \A a, b \in 1..Len(s) : a # b => s[a] # s[b]}

InitGroup ==
  /\ impl = "ts"
  /\ attrs = NoAttrs
  /\ content = <<>>
  /\ lines = <<>>
  /\ i = 0
  /\ entries = <<>>
  /\ pc = "idle"
  /\ previous = NoCall
  /\ items \in Orderings(ItemPool, MaxItems) \cup Orderings(CatalogPool, MaxItems)
  /\ groups = <<>>
  /\ gi = 0
  /\ gpc = "forEach"
  /\ view = NoView
  /\ SyncIdle
  /\ AppIdle

SpecGroup == InitGroup /\ [][GroupNext]_vars

(***************************************************************************)
(* The pipeline: a playlist is parsed and the records parseM3U returned    *)
(* are the list given to groupSeriesByShow                                 *)
(***************************************************************************)
MaxEntries == 3

\* the attribute values of the entries the playlists are made of: episodes
\* of one show (one without a token, a special of season 0, one with a
\* lower-case token under a movie title), a movie and a channel
PipelinePool ==
  { [groupTitle |-> <<"D", "I", "Z", "I">>, tvgName |-> <<"S", "h", "o", "w">>],
    [groupTitle |-> <<"D", "I", "Z", "I">>, tvgName |-> <<"S", "h", "o", "w", " ", "S", "0", "0", "E", "0", "5">>],
    [groupTitle |-> <<"D", "I", "Z", "I">>, tvgName |-> <<"S", "h", "o", "w", " ", "S", "0", "1", "E", "0", "5">>],
    [groupTitle |-> <<"D", "I", "Z", "I">>, tvgName |-> <<"S", "h", "o", "w", " ", "S", "0", "2", "E", "0", "1">>],
    [groupTitle |-> <<"f", "i", "l", "m">>, tvgName |-> <<"S", "h", "o", "w", " ", "s", "1", "0", "e", "0", "1">>],
    [groupTitle |-> <<"f", "i", "l", "m">>, tvgName |-> <<"O", "t", "h", "e", "r", " ", "(", "2", "0", "2", "3", ")">>],
    ScenarioA }

\* the lines of the entries: an #EXTINF line and a url line each
RECURSIVE EntryLines(_)
EntryLines(as) ==
  IF as = <<>> THEN <<>>
  ELSE <<ExtinfLine(Head(as)), UrlLine>> \o EntryLines(Tail(as))

\* groupSeriesByShow(items) is called with the records parseM3U returned
GroupParsed ==
  /\ pc = "done"
  /\ gpc = "idle"
  /\ items' = entries
  /\ groups' = <<>>
  /\ gi' = 0
  /\ gpc' = "forEach"
  /\ UNCHANGED view
  /\ UNCHANGED <<parseVars, syncVars, appVars>>

InitPipeline ==
  /\ impl \in {"ts", "cjs"}
  /\ attrs = NoAttrs
  /\ \E as \in Orderings(PipelinePool, MaxEntries) :
       content = join(<<HeaderLine>> \o EntryLines(as))
  /\ lines = <<>>
  /\ i = 0
  /\ entries = <<>>
  /\ pc = "start"
  /\ previous = NoCall
  /\ items = <<>>
  /\ groups = <<>>
  /\ gi = 0
  /\ gpc = "idle"
  /\ view = NoView
  /\ SyncIdle
  /\ AppIdle

PipelineNext == ParseNext \/ GroupParsed \/ GroupNext

SpecPipeline == InitPipeline /\ [][PipelineNext]_vars


(***************************************************************************)
(* syncIPTVData, saveIPTVData, loadContentData: one action per stretch of  *)
(* code between two awaits; the parseM3U call of a sync runs as the steps  *)
(* of parseM3U, during which nothing else runs                             *)
(***************************************************************************)
MaxCalls == 2

\* the url the playlist is downloaded from
PlaylistUrl == <<"h", "t", "t", "p", ":", "/", "/", "e", "x", "a", "m", "p", "l", "e", ".", "c", "o", "m", "/", "l", "i", "s", "t", ".", "m", "3", "u">>

\* texts a download can deliver: two that are no playlist, two playlists
\* without a record, a playlist of one record and one of two
Downloads ==
  { <<>>,
    <<"<", "h", "t", "m", "l", ">">>,
    HeaderLine,
    <<"s", "e", "e", " ", "#", "E", "X", "T", "I", "N", "F", ":", "-", "1", ",", "X">>,
    join(<<HeaderLine, ScenarioDLine, UrlLine>>),
    join(<<ScenarioDLine, PaddedUrlLine, ScenarioDLine, UrlLine>>) }

\* contentData: the static catalog loadContentData falls back to
StaticContent == <<Item(1, <<"D", "e", "m", "o">>, NULL, <<"M", "o", "v", "i", "e">>, NULL, NULL)>>

\* what a failing call leaves alone: storage, settings and the content cache
Snapshot == [store |-> store, settings |-> settings, cachedData |-> cachedData]

\* call c of syncIPTVData is between its start and its return
Running(c) == calls[c].pc # "returned"
\* no syncIPTVData call and no loadContentData call is in progress
Quiet == load.pc = "idle" /\ \A c \in 1..Len(calls) : ~Running(c)

Failure(message) == [success |-> FALSE, message |-> message, itemCount |-> None]

\* syncIPTVData(url) is called: fetch(url) is awaited
SyncStart ==
  /\ Len(calls) < MaxCalls
  /\ calls' = Append(calls, [pc |-> "fetch", url |-> PlaylistUrl, before |-> Snapshot,
                             text |-> None, items |-> None, metadata |-> None,
                             result |-> None])
  /\ UNCHANGED <<store, settings, cachedData, load, clock>>
  /\ UNCHANGED <<parseVars, groupVars, appVars>>

\* the response is not ok, or fetch throws: return { success: false }
SyncFetchFailed(c) ==
  /\ calls[c].pc = "fetch"
  /\ calls' = [calls EXCEPT ![c].pc = "returned",
                            ![c].result = Failure("Failed to download M3U")]
  /\ UNCHANGED <<store, settings, cachedData, load, clock>>
  /\ UNCHANGED <<parseVars, groupVars, appVars>>

\* the response is ok: response.text() is awaited and delivers a text
SyncFetched(c) ==
  /\ calls[c].pc = "fetch"
  /\ \E text \in Downloads :
       calls' = [calls EXCEPT ![c].pc = "text", ![c].text = Some(text)]
  /\ UNCHANGED <<store, settings, cachedData, load, clock>>
  /\ UNCHANGED <<parseVars, groupVars, appVars>>

\* step 2: the text fails isValidM3U: return { success: false }; otherwise
\* step 3 begins: parseM3U(m3uContent) is called
SyncValidate(c) ==
  /\ calls[c].pc = "text"
  /\ pc \in {"idle", "done"}
  /\ IF ~isValidM3U(calls[c].text.some)
     THEN /\ calls' = [calls EXCEPT ![c].pc = "returned",
                                    ![c].result = Failure("Invalid M3U file format")]
          /\ UNCHANGED <<content, pc>>
     ELSE /\ calls' = [calls EXCEPT ![c].pc = "parse"]
          /\ content' = calls[c].text.some
          /\ pc' = "start"
  /\ UNCHANGED <<store, settings, cachedData, load, clock>>
  /\ UNCHANGED <<impl, attrs, lines, i, entries, previous>>
  /\ UNCHANGED <<groupVars, appVars>>

\* SyncParsed that calls clearCache() before it looks at the records
SyncParsedClearingCache(c) ==
  /\ calls[c].pc = "parse"
  /\ pc = "done"
  /\ IF Len(entries) = 0
     THEN /\ calls' = [calls EXCEPT
                         ![c].pc = "returned",
                         ![c].result = Failure("No valid entries found in M3U file")]
          /\ UNCHANGED clock
     ELSE /\ calls' = [calls EXCEPT
                         ![c].pc = "saveContent",
                         ![c].items = Some(entries),
                         ![c].metadata = Some([itemCount |-> Len(entries),
                                               lastModified |-> clock,
                                               sourceUrl |-> calls[c].url])]
          /\ clock' = clock + 1
  /\ cachedData' = None
  /\ pc' = "idle"
  /\ UNCHANGED <<store, settings, load>>
  /\ UNCHANGED <<impl, attrs, content, lines, i, entries, previous>>
  /\ UNCHANGED <<groupVars, appVars>>

\* parseM3U has returned contentItems. Step 3: there is no record: return
\* { success: false }. Step 4: otherwise saveIPTVData is called, builds the
\* metadata and awaits the store (storageSize, the length of the JSON text of
\* the records, is left out of the metadata)
SyncParsed(c) ==
  /\ calls[c].pc = "parse"
  /\ pc = "done"
  /\ IF Len(entries) = 0
     THEN /\ calls' = [calls EXCEPT
                         ![c].pc = "returned",
                         ![c].result = Failure("No valid entries found in M3U file")]
          /\ UNCHANGED clock
     ELSE /\ calls' = [calls EXCEPT
                         ![c].pc = "saveContent",
                         ![c].items = Some(entries),
                         ![c].metadata = Some([itemCount |-> Len(entries),
                                               lastModified |-> clock,
                                               sourceUrl |-> calls[c].url])]
          /\ clock' = clock + 1
  /\ pc' = "idle"
  /\ UNCHANGED <<store, settings, cachedData, load>>
  /\ UNCHANGED <<impl, attrs, content, lines, i, entries, previous>>
  /\ UNCHANGED <<groupVars, appVars>>

\* await store.setItem(STORAGE_KEYS.CONTENT, content)
SaveContent(c) ==
  /\ calls[c].pc = "saveContent"
  /\ store' = [store EXCEPT !.content = calls[c].items]
  /\ calls' = [calls EXCEPT ![c].pc = "saveMetadata"]
  /\ UNCHANGED <<settings, cachedData, load, clock>>
  /\ UNCHANGED <<parseVars, groupVars, appVars>>

\* await store.setItem(STORAGE_KEYS.METADATA, metadata)
SaveMetadata(c) ==
  /\ calls[c].pc = "saveMetadata"
  /\ store' = [store EXCEPT !.metadata = calls[c].metadata]
  /\ calls' = [calls EXCEPT ![c].pc = "saveLastSync"]
  /\ UNCHANGED <<settings, cachedData, load, clock>>
  /\ UNCHANGED <<parseVars, groupVars, appVars>>

\* await store.setItem(STORAGE_KEYS.LAST_SYNC, new Date().toISOString())
SaveLastSync(c) ==
  /\ calls[c].pc = "saveLastSync"
  /\ store' = [store EXCEPT !.lastSync = Some(clock)]
  /\ clock' = clock + 1
  /\ calls' = [calls EXCEPT ![c].pc = "saveRaw"]
  /\ UNCHANGED <<settings, cachedData, load>>
  /\ UNCHANGED <<parseVars, groupVars, appVars>>

\* if (rawM3U) await store.setItem(STORAGE_KEYS.M3U_RAW, rawM3U)
SaveRaw(c) ==
  /\ calls[c].pc = "saveRaw"
  /\ store' = IF calls[c].text.some # <<>>
              THEN [store EXCEPT !.raw = calls[c].text] ELSE store
  /\ calls' = [calls EXCEPT ![c].pc = "finish"]
  /\ UNCHANGED <<settings, cachedData, load, clock>>
  /\ UNCHANGED <<parseVars, groupVars, appVars>>

\* saveIPTVData has returned: settings.iptvLastSync is set and saved,
\* clearCache(), return { success: true }
SyncFinish(c) ==
  /\ calls[c].pc = "finish"
  /\ settings' = [settings EXCEPT !.iptvLastSync = Some(clock)]
  /\ clock' = clock + 1
  /\ cachedData' = None
  /\ calls' = [calls EXCEPT
                 ![c].pc = "returned",
                 ![c].result = [success |-> TRUE,
                                message |-> "IPTV data synced successfully",
                                itemCount |-> Some(Len(calls[c].items.some))]]
  /\ UNCHANGED <<store, load>>
  /\ UNCHANGED <<parseVars, groupVars, appVars>>

\* the user switches the IPTV source on or off in the settings
ToggleIptv ==
  /\ settings' = [settings EXCEPT !.iptvEnabled = ~settings.iptvEnabled]
  /\ UNCHANGED <<calls, store, cachedData, load, clock>>
  /\ UNCHANGED <<parseVars, groupVars, appVars>>

\* loadContentData(): the cache is filled, it is returned
LoadCached ==
  /\ load.pc = "idle"
  /\ cachedData # None
  /\ load' = [load EXCEPT !.result = cachedData]
  /\ UNCHANGED <<calls, store, settings, cachedData, clock>>
  /\ UNCHANGED <<parseVars, groupVars, appVars>>

\* loadContentData(): the cache is empty and IPTV (like Plex) is switched off:
\* the static catalog is cached and returned
LoadStatic ==
  /\ load.pc = "idle"
  /\ cachedData = None
  /\ ~settings.iptvEnabled
  /\ cachedData' = Some(StaticContent)
  /\ load' = [load EXCEPT !.result = Some(StaticContent)]
  /\ UNCHANGED <<calls, store, settings, clock>>
  /\ UNCHANGED <<parseVars, groupVars, appVars>>

\* loadContentData(): the cache is empty and IPTV is switched on:
\* loadIPTVDataAsync() is awaited
LoadBegin ==
  /\ load.pc = "idle"
  /\ cachedData = None
  /\ settings.iptvEnabled
  /\ load' = [pc |-> "reading", data |-> None, result |-> None]
  /\ UNCHANGED <<calls, store, settings, cachedData, clock>>
  /\ UNCHANGED <<parseVars, groupVars, appVars>>

\* store.getItem(STORAGE_KEYS.CONTENT) delivers what is stored
LoadRead ==
  /\ load.pc = "reading"
  /\ load' = [load EXCEPT !.pc = "read", !.data = store.content]
  /\ UNCHANGED <<calls, store, settings, cachedData, clock>>
  /\ UNCHANGED <<parseVars, groupVars, appVars>>

\* the await returns: the stored records, or the static catalog when there
\* are none, are cached and returned
LoadFinish ==
  /\ load.pc = "read"
  /\ LET combinedData == IF load.data # None /\ Len(load.data.some) > 0
                         THEN load.data ELSE Some(StaticContent)
     IN /\ cachedData' = combinedData
        /\ load' = [pc |-> "idle", data |-> None, result |-> combinedData]
  /\ UNCHANGED <<calls, store, settings, clock>>
  /\ UNCHANGED <<parseVars, groupVars, appVars>>

\* a step of a syncIPTVData call that has started
SyncStep ==
  \E c \in 1..Len(calls) :
    \/ SyncFetchFailed(c)
    \/ SyncFetched(c)
    \/ SyncValidate(c)
    \/ SyncParsed(c)
    \/ SaveContent(c)
    \/ SaveMetadata(c)
    \/ SaveLastSync(c)
    \/ SaveRaw(c)
    \/ SyncFinish(c)

\* a step of a loadContentData call that has started
LoadStep == LoadRead \/ LoadFinish

\* calls made one at a time: a call starts when no other is in progress
SyncNext ==
  \/ Quiet /\ SyncStart
  \/ Quiet /\ ToggleIptv
  \/ Quiet /\ LoadCached
  \/ Quiet /\ LoadStatic
  \/ Quiet /\ LoadBegin
  \/ SyncStep
  \/ ParseNext
  \/ LoadStep

InitSync ==
  /\ impl = "ts"
  /\ attrs = NoAttrs
  /\ content = <<>>
  /\ lines = <<>>
  /\ i = 0
  /\ entries = <<>>
  /\ pc = "idle"
  /\ previous = NoCall
  /\ items = <<>>
  /\ groups = <<>>
  /\ gi = 0
  /\ gpc = "idle"
  /\ view = NoView
  /\ SyncIdle
  /\ AppIdle

SpecSync == InitSync /\ [][SyncNext]_vars

\* a step of a syncIPTVData call at one of its awaits
AwaitStep(c) ==
  \/ SyncFetchFailed(c)
  \/ SyncFetched(c)
  \/ SyncValidate(c)
  \/ SaveContent(c)
  \/ SaveMetadata(c)
  \/ SaveLastSync(c)
  \/ SaveRaw(c)
  \/ SyncFinish(c)

\* calls that overlap (the automatic sync of the App mount effect, the manual
\* sync of the settings page, the loadContentData calls of the pages): a call
\* may start, and a call suspended at an await may go on, whenever no code is
\* running; parseM3U has no await and runs to its return. Both callers of
\* syncIPTVData require the IPTV source to be switched on (isSyncDue, and the
\* sync button that is rendered only then); the switch is set before the syncs
OverlapNext ==
  \/ pc = "idle" /\ settings.iptvEnabled /\ SyncStart
  \/ pc = "idle" /\ calls = <<>> /\ ToggleIptv
  \/ pc = "idle" /\ LoadCached
  \/ pc = "idle" /\ LoadStatic
  \/ pc = "idle" /\ LoadBegin
  \/ pc = "idle" /\ LoadStep
  \/ pc = "idle" /\ \E c \in 1..Len(calls) : AwaitStep(c)
  \/ ParseNext
  \/ \E c \in 1..Len(calls) : SyncParsed(c)

SpecOverlap == InitSync /\ [][OverlapNext]_vars

(***************************************************************************)
(* The watch history (utils/watchHistory.ts), kept in localStorage         *)
(***************************************************************************)
MAX_HISTORY_ITEMS == 12
MIN_PROGRESS_PERCENT == 5
MAX_PROGRESS_PERCENT == 95

\* history.sort((a, b) => b.lastWatched - a.lastWatched): stable, descending
RECURSIVE InsertByLastWatched(_, _)
InsertByLastWatched(sorted, h) ==
  IF sorted = <<>> THEN <<h>>
  ELSE IF h.lastWatched > Head(sorted).lastWatched THEN <<h>> \o sorted
  ELSE <<Head(sorted)>> \o InsertByLastWatched(Tail(sorted), h)
RECURSIVE SortByLastWatchedDesc(_)
SortByLastWatchedDesc(hs) ==
  IF hs = <<>> THEN <<>>
  ELSE InsertByLastWatched(SortByLastWatchedDesc(SubSeq(hs, 1, Len(hs) - 1)), hs[Len(hs)])

\* loadWatchHistory(): the stored list, sorted; [] when nothing is stored
loadWatchHistory(stored) ==
  IF stored = None THEN <<>> ELSE SortByLastWatchedDesc(stored.some)

\* history.filter(h => h.content.url !== url)
RECURSIVE WithoutUrl(_, _)
WithoutUrl(hs, url) ==
  IF hs = <<>> THEN <<>>
  ELSE IF Head(hs).content.url # url THEN <<Head(hs)>> \o WithoutUrl(Tail(hs), url)
  ELSE WithoutUrl(Tail(hs), url)

\* (currentTime / duration) * 100 < bound; with duration 0 the progress is
\* Infinity or NaN, and no comparison with NaN is true
ProgressBelow(currentTime, duration, bound) ==
  duration > 0 /\ currentTime * 100 < bound * duration
ProgressAbove(currentTime, duration, bound) ==
  IF duration = 0 THEN currentTime > 0 ELSE currentTime * 100 > bound * duration
\* Math.round(progress) as JSON.stringify writes it: NaN is written as null
RoundedProgress(currentTime, duration) ==
  IF duration = 0 THEN None
  ELSE Some((2 * currentTime * 100 + duration) \div (2 * duration))

\* the early return of saveWatchProgress is not taken
Accepted(currentTime, duration) ==
  ~(\/ ProgressBelow(currentTime, duration, MIN_PROGRESS_PERCENT)
    \/ ProgressAbove(currentTime, duration, MAX_PROGRESS_PERCENT))

\* [newHistoryItem, ...filteredHistory].slice(0, MAX_HISTORY_ITEMS)
KeepNewest(hs) == SubSeq(hs, 1, IF Len(hs) < MAX_HISTORY_ITEMS THEN Len(hs)
                                ELSE MAX_HISTORY_ITEMS)

\* saveWatchProgress that does not remove the earlier entry of the url
saveWatchProgressKeepingOld(stored, item, currentTime, duration, now) ==
  IF ~Accepted(currentTime, duration) THEN stored
  ELSE LET hs == loadWatchHistory(stored)
           newHistoryItem == [content |-> item, currentTime |-> currentTime,
                              duration |-> duration, lastWatched |-> now,
                              progress |-> RoundedProgress(currentTime, duration)]
       IN Some(KeepNewest(<<newHistoryItem>> \o hs))

\* saveWatchProgress(item, currentTime, duration): the value stored afterwards
saveWatchProgress(stored, item, currentTime, duration, now) ==
  IF ~Accepted(currentTime, duration) THEN stored
  ELSE LET hs == loadWatchHistory(stored)
           filteredHistory == WithoutUrl(hs, item.url)
           newHistoryItem == [content |-> item, currentTime |-> currentTime,
                              duration |-> duration, lastWatched |-> now,
                              progress |-> RoundedProgress(currentTime, duration)]
       IN Some(KeepNewest(<<newHistoryItem>> \o filteredHistory))

\* removeFromWatchHistory(itemUrl): the value stored afterwards
removeFromWatchHistory(stored, itemUrl) ==
  Some(WithoutUrl(loadWatchHistory(stored), itemUrl))

MaxWatched == 13
MaxWatchCalls == 2

\* the content item played: the url is what the history reads of it
WatchedItem(k) == [url |-> <<"h", "t", "t", "p", ":", "/", "/", "e", "/">> \o String(k)]
\* the positions a player reports, with the duration of the video (200) or
\* before the duration is known (0)
Positions == { <<8, 200>>, <<100, 200>>, <<192, 200>>, <<0, 0>>, <<1, 0>> }
\* the items of the calls: the oldest, the one after it, the newest and one
\* that was never played
WatchInputs == {WatchedItem(k) : k \in {1, 2, MaxWatched, MaxWatched + 1}}

\* the history after items 1..n were played one after the other, half way
RECURSIVE AfterWatching(_)
AfterWatching(n) ==
  IF n = 0 THEN None
  ELSE saveWatchProgress(AfterWatching(n - 1), WatchedItem(n), 100, 200, n)

\* the player reports a position: saveWatchProgress(item, currentTime, duration)
SaveWatchProgress ==
  /\ watch.n < MaxWatchCalls
  /\ \E item \in WatchInputs, p \in Positions, now \in {clock, clock + 1} :
       /\ history' = saveWatchProgress(history, item, p[1], p[2], now)
       /\ clock' = now
       /\ watch' = [op |-> "saveWatchProgress", n |-> watch.n + 1, url |-> item.url,
                    currentTime |-> p[1], accepted |-> Accepted(p[1], p[2])]
  /\ UNCHANGED <<calls, store, settings, cachedData, load>>
  /\ UNCHANGED <<parseVars, groupVars, downloadVars>>

\* the user removes an entry: removeFromWatchHistory(itemUrl)
RemoveFromWatchHistory ==
  /\ watch.n < MaxWatchCalls
  /\ \E item \in WatchInputs :
       /\ history' = removeFromWatchHistory(history, item.url)
       /\ watch' = [op |-> "removeFromWatchHistory", n |-> watch.n + 1,
                    url |-> item.url, currentTime |-> 0, accepted |-> FALSE]
  /\ UNCHANGED <<parseVars, groupVars, syncVars, downloadVars>>

\* clearWatchHistory(): localStorage.removeItem(WATCH_HISTORY_KEY)
ClearWatchHistory ==
  /\ watch.n < MaxWatchCalls
  /\ history' = None
  /\ watch' = [op |-> "clearWatchHistory", n |-> watch.n + 1, url |-> NULL,
               currentTime |-> 0, accepted |-> FALSE]
  /\ UNCHANGED <<parseVars, groupVars, syncVars, downloadVars>>

WatchNext == SaveWatchProgress \/ RemoveFromWatchHistory \/ ClearWatchHistory

InitWatch ==
  /\ impl = "ts"
  /\ attrs = NoAttrs
  /\ content = <<>>
  /\ lines = <<>>
  /\ i = 0
  /\ entries = <<>>
  /\ pc = "idle"
  /\ previous = NoCall
  /\ items = <<>>
  /\ groups = <<>>
  /\ gi = 0
  /\ gpc = "idle"
  /\ view = NoView
  /\ calls = <<>>
  /\ store = EmptyStore
  /\ settings = DefaultSettings
  /\ cachedData = None
  /\ load = LoadIdle
  /\ \E n \in 0..MaxWatched :
       /\ history = AfterWatching(n)
       /\ clock = n
  /\ watch = NoWatch
  /\ DownloadIdle

SpecWatch == InitWatch /\ [][WatchNext]_vars

(***************************************************************************)
(* The file download of the Electron main process (file:download and its   *)
(* pause, resume and cancel calls). A stream is "flowing" when it emits    *)
(* its events, "paused" after pause(), "destroyed" after destroy(): a      *)
(* destroyed response emits neither 'data' nor 'end'.                      *)
(***************************************************************************)
MaxChunks == 3

\* the chunks of a response body, in the order they are sent
Chunks == <<"chunk1", "chunk2", "chunk3", "chunk4">>

\* activeDownloads.delete(downloadId)
Deleted(id) == activeDownloads \ {id}

\* file:download, the save dialog is dismissed: { success: false, canceled: true }
DownloadDialogCanceled ==
  /\ dpc = "idle"
  /\ dpc' = "closed"
  /\ reply' = [op |-> "download", success |-> FALSE]
  /\ UNCHANGED <<activeDownloads, downloadState, incoming, received, disk, status>>
  /\ UNCHANGED <<parseVars, groupVars, syncVars, watchVars>>

\* file:download, a path is chosen: downloadState is created and put in the
\* table, the request is sent and file:download:started is emitted
DownloadRequest ==
  /\ dpc = "idle"
  /\ LET downloadId == String(clock)
     IN /\ downloadState' = [NoDownload EXCEPT !.request = "sent",
                                               !.downloadId = downloadId]
        /\ activeDownloads' = activeDownloads \cup {downloadId}
  /\ status' = "started"
  /\ dpc' = "requested"
  /\ UNCHANGED <<incoming, received, disk, reply>>
  /\ UNCHANGED <<parseVars, groupVars, syncVars, watchVars>>

\* the response is a 301 or 302: a progress event is sent and the request is
\* made again at the new location
DownloadRedirect ==
  /\ dpc = "requested"
  /\ downloadState.request = "sent"
  /\ status' = "downloading"
  /\ dpc' = "redirected"
  /\ UNCHANGED <<activeDownloads, downloadState, incoming, received, disk, reply>>
  /\ UNCHANGED <<parseVars, groupVars, syncVars, watchVars>>

\* the request emits 'error' (the network fails, or the request was destroyed)
DownloadRequestError ==
  /\ dpc \in {"requested", "redirected"}
  /\ downloadState.request \in {"sent", "destroyed"}
  /\ activeDownloads' = Deleted(downloadState.downloadId)
  /\ downloadState' = [downloadState EXCEPT !.request = "failed"]
  /\ status' = "error"
  /\ dpc' = "closed"
  /\ UNCHANGED <<incoming, received, disk, reply>>
  /\ UNCHANGED <<parseVars, groupVars, syncVars, watchVars>>

\* handleDownloadResponse, the status code is not 200
DownloadHttpError ==
  /\ dpc \in {"requested", "redirected"}
  /\ downloadState.request = "sent"
  /\ activeDownloads' = Deleted(downloadState.downloadId)
  /\ status' = "error"
  /\ dpc' = "closed"
  /\ UNCHANGED <<downloadState, incoming, received, disk, reply>>
  /\ UNCHANGED <<parseVars, groupVars, syncVars, watchVars>>

\* handleDownloadResponse, status 200: the response is kept, the first
\* progress event is sent, the file is created and the listeners are attached
\* (which starts the flow of the response)
DownloadResponse ==
  /\ dpc \in {"requested", "redirected"}
  /\ downloadState.request = "sent"
  /\ \E n \in 0..MaxChunks : incoming' = SubSeq(Chunks, 1, n)
  /\ downloadState' = [downloadState EXCEPT !.response = "flowing",
                                            !.fileStream = "open"]
  /\ disk' = [exists |-> TRUE, data |-> <<>>]
  /\ status' = "downloading"
  /\ dpc' = "streaming"
  /\ UNCHANGED <<activeDownloads, received, reply>>
  /\ UNCHANGED <<parseVars, groupVars, syncVars, watchVars>>

\* what fileStream.write(chunk), for each chunk of written, leaves in the file
Written(written) ==
  IF downloadState.fileStream = "open"
  THEN [disk EXCEPT !.data = disk.data \o written] ELSE disk

\* response.on('data'): the chunk is dropped after a cancel, buffered while
\* paused, and otherwise written after the chunks of the buffer; a progress
\* event is sent when the last one is more than 100 ms old
DownloadData ==
  /\ dpc = "streaming"
  /\ downloadState.response = "flowing"
  /\ incoming # <<>>
  /\ incoming' = Tail(incoming)
  /\ received' = Append(received, Head(incoming))
  /\ IF downloadState.canceled
     THEN UNCHANGED <<downloadState, disk, status>>
     ELSE IF downloadState.paused
     THEN /\ downloadState' = [downloadState EXCEPT
                                 !.buffer = Append(downloadState.buffer, Head(incoming))]
          /\ UNCHANGED <<disk, status>>
     ELSE /\ disk' = Written(downloadState.buffer \o <<Head(incoming)>>)
          /\ downloadState' = [downloadState EXCEPT !.buffer = <<>>]
          /\ \E progressSent \in BOOLEAN :
               status' = IF progressSent THEN "downloading" ELSE status
  /\ UNCHANGED <<activeDownloads, dpc, reply>>
  /\ UNCHANGED <<parseVars, groupVars, syncVars, watchVars>>

\* response.on('end'): after a cancel the file stream is destroyed, the file
\* unlinked and the entry deleted; otherwise fileStream.end(callback)
DownloadEnd ==
  /\ dpc = "streaming"
  /\ downloadState.response = "flowing"
  /\ incoming = <<>>
  /\ IF downloadState.canceled
     THEN /\ downloadState' = [downloadState EXCEPT !.response = "ended",
                                                    !.fileStream = "destroyed"]
          /\ disk' = NoFile
          /\ activeDownloads' = Deleted(downloadState.downloadId)
          /\ dpc' = "closed"
     ELSE /\ downloadState' =
               [downloadState EXCEPT
                  !.response = "ended",
                  !.fileStream = IF downloadState.fileStream = "open" THEN "ending"
                                 ELSE downloadState.fileStream]
          /\ dpc' = "ending"
          /\ UNCHANGED <<disk, activeDownloads>>
  /\ UNCHANGED <<incoming, received, status, reply>>
  /\ UNCHANGED <<parseVars, groupVars, syncVars, watchVars>>

\* the callback of fileStream.end, the stream has finished: the entry is
\* deleted, the 'complete' event is sent and the promise resolved
DownloadFinish ==
  /\ dpc = "ending"
  /\ downloadState.fileStream = "ending"
  /\ downloadState' = [downloadState EXCEPT !.fileStream = "finished"]
  /\ activeDownloads' = Deleted(downloadState.downloadId)
  /\ status' = "complete"
  /\ dpc' = "closed"
  /\ reply' = [op |-> "download", success |-> TRUE]
  /\ UNCHANGED <<incoming, received, disk>>
  /\ UNCHANGED <<parseVars, groupVars, syncVars, watchVars>>

\* the callback of fileStream.end, the stream has failed or was destroyed:
\* the runtime may call it with the error, which the callback does not read
DownloadFinishAfterFailure ==
  /\ dpc = "ending"
  /\ downloadState.fileStream \in {"errored", "destroyed"}
  /\ activeDownloads' = Deleted(downloadState.downloadId)
  /\ status' = "complete"
  /\ dpc' = "closed"
  /\ reply' = [op |-> "download", success |-> TRUE]
  /\ UNCHANGED <<downloadState, incoming, received, disk>>
  /\ UNCHANGED <<parseVars, groupVars, syncVars, watchVars>>

\* fileStream.on('error'): the entry is deleted and an 'error' event is sent
DownloadFileError ==
  /\ downloadState.fileStream \in {"open", "ending"}
  /\ downloadState' = [downloadState EXCEPT !.fileStream = "errored"]
  /\ activeDownloads' = Deleted(downloadState.downloadId)
  /\ status' = "error"
  /\ UNCHANGED <<incoming, received, disk, dpc, reply>>
  /\ UNCHANGED <<parseVars, groupVars, syncVars, watchVars>>

\* the ids the renderer calls pause, resume and cancel with: the id that
\* file:download:started gave it
KnownIds == IF downloadState.downloadId = NULL THEN {String(clock)}
            ELSE {downloadState.downloadId}

\* file:download:pause
DownloadPause ==
  /\ \E downloadId \in KnownIds :
       IF downloadId \notin activeDownloads
       THEN /\ reply' = [op |-> "pause", success |-> FALSE]
            /\ UNCHANGED <<downloadState, status>>
       ELSE /\ downloadState' =
                 [downloadState EXCEPT
                    !.paused = TRUE,
                    !.response = IF downloadState.response = "flowing" THEN "paused"
                                 ELSE downloadState.response]
            /\ status' = "paused"
            /\ reply' = [op |-> "pause", success |-> TRUE]
  /\ UNCHANGED <<activeDownloads, incoming, received, disk, dpc>>
  /\ UNCHANGED <<parseVars, groupVars, syncVars, watchVars>>

\* file:download:resume
DownloadResume ==
  /\ \E downloadId \in KnownIds :
       IF downloadId \notin activeDownloads
       THEN /\ reply' = [op |-> "resume", success |-> FALSE]
            /\ UNCHANGED <<downloadState, status>>
       ELSE /\ downloadState' =
                 [downloadState EXCEPT
                    !.paused = FALSE,
                    !.response = IF downloadState.response = "paused" THEN "flowing"
                                 ELSE downloadState.response]
            /\ status' = "downloading"
            /\ reply' = [op |-> "resume", success |-> TRUE]
  /\ UNCHANGED <<activeDownloads, incoming, received, disk, dpc>>
  /\ UNCHANGED <<parseVars, groupVars, syncVars, watchVars>>

\* file:download:cancel: the flag is set, the response, the request and the
\* file stream are destroyed, the entry is deleted, 'canceled' is sent
DownloadCancel ==
  /\ \E downloadId \in KnownIds :
       IF downloadId \notin activeDownloads
       THEN /\ reply' = [op |-> "cancel", success |-> FALSE]
            /\ UNCHANGED <<downloadState, activeDownloads, status>>
       ELSE /\ downloadState' =
                 [downloadState EXCEPT
                    !.canceled = TRUE,
                    !.response = IF downloadState.response \in {"flowing", "paused"}
                                 THEN "destroyed" ELSE downloadState.response,
                    !.request = IF downloadState.request = "sent"
                                THEN "destroyed" ELSE downloadState.request,
                    !.fileStream = IF downloadState.fileStream \in {"open", "ending"}
                                   THEN "destroyed" ELSE downloadState.fileStream]
            /\ activeDownloads' = Deleted(downloadId)
            /\ status' = "canceled"
            /\ reply' = [op |-> "cancel", success |-> TRUE]
  /\ UNCHANGED <<incoming, received, disk, dpc>>
  /\ UNCHANGED <<parseVars, groupVars, syncVars, watchVars>>

DownloadNext ==
  \/ DownloadDialogCanceled
  \/ DownloadRequest
  \/ DownloadRedirect
  \/ DownloadRequestError
  \/ DownloadHttpError
  \/ DownloadResponse
  \/ DownloadData
  \/ DownloadEnd
  \/ DownloadFinish
  \/ DownloadFinishAfterFailure
  \/ DownloadFileError
  \/ DownloadPause
  \/ DownloadResume
  \/ DownloadCancel

InitDownload ==
  /\ impl = "cjs"
  /\ attrs = NoAttrs
  /\ content = <<>>
  /\ lines = <<>>
  /\ i = 0
  /\ entries = <<>>
  /\ pc = "idle"
  /\ previous = NoCall
  /\ items = <<>>
  /\ groups = <<>>
  /\ gi = 0
  /\ gpc = "idle"
  /\ view = NoView
  /\ SyncIdle
  /\ AppIdle

SpecDownload == InitDownload /\ [][DownloadNext]_vars

\* the event loop runs the handler of every event that stays pending
SpecDownloadFair ==
  /\ InitDownload
  /\ [][DownloadNext]_vars
  /\ WF_vars(DownloadData)
  /\ WF_vars(DownloadEnd)
  /\ WF_vars(DownloadFinish)


(***************************************************************************)
(* Properties                                                              *)
(***************************************************************************)
Range(s) == {s[k] : k \in 1..Len(s)}

\* (season, episode) of an item as integers, a missing one read as 0
PairOf(item) ==
  <<IF item.season = NULL THEN 0 ELSE parseInt(item.season),
    IF item.episode = NULL THEN 0 ELSE parseInt(item.episode)>>
LexLeq(a, b) == a[1] < b[1] \/ (a[1] = b[1] /\ a[2] <= b[2])

\* C1: for every set of Series items sharing a group key, in whatever order
\* the list gives them, the representative of their group is one of them whose
\* (season, episode) pair is the lexicographic maximum; when a single item
\* attains the maximum, it is the representative (so every ordering picks it).
C1_RepresentativeIsMaximum ==
  gpc = "done" =>
    \A it \in Range(items) :
      it.type = <<"S", "e", "r", "i", "e", "s">> =>
        /\ HasKey(groups, SeriesKey(it))
        /\ LET group == groups[KeyIndex(groups, SeriesKey(it))]
               members == {m \in Range(items) :
                             m.type = <<"S", "e", "r", "i", "e", "s">> /\ SeriesKey(m) = SeriesKey(it)}
               maxima == {m \in members :
                            \A o \in members : LexLeq(PairOf(o), PairOf(m))}
           IN /\ group.representative \in maxima
              /\ Cardinality(maxima) = 1 => maxima = {group.representative}

\* the list holds S1E1, S1E5 and S2E1 of one show with S2E1 given first, and
\* S2E1 is the representative
C1_Witness ==
  /\ gpc = "done"
  /\ Len(items) = 3
  /\ {items[k].id : k \in 1..3} = {<<1, 1>>, <<2, 1>>, <<3, 1>>}
  /\ items[1].id = <<3, 1>>
  /\ Len(groups) = 1
  /\ groups[1].representative.id = <<3, 1>>
  /\ PairOf(groups[1].representative) = <<2, 1>>

\* C2: the k-th record returned by parseM3U has id = k.
C2_IdsAreOrdinals ==
  \A k \in 1..Len(entries) : entries[k].id = <<k, 1>>

ExtinfPositions(ls) == {k \in 1..Len(ls) : startsWith(ls[k], <<"#", "E", "X", "T", "I", "N", "F", ":">>)}
\* the j-th smallest element of a set of integers
NthOf(P, j) == CHOOSE k \in P : Cardinality({m \in P : m < k}) = j - 1

\* C3: parseM3U returns exactly one record for each trimmed non-empty line that
\* starts with #EXTINF:, in order, and the record's url is the line that follows
\* in the trimmed non-empty line sequence.
C3_OneRecordPerExtinfLine ==
  pc = "done" =>
    LET ls == TrimmedLines(content)
        P == ExtinfPositions(ls)
    IN /\ Len(entries) = Cardinality(P)
       /\ \A j \in 1..Len(entries) :
            j <= Cardinality(P) =>
              entries[j].url = IF NthOf(P, j) + 1 <= Len(ls)
                               THEN ls[NthOf(P, j) + 1] ELSE <<>>

\* the record of the entry written with the attributes of Scenario C
ScenarioCParsed == pc = "done" /\ attrs = ScenarioC /\ Len(entries) = 1

\* C4 as stated: the Scenario C entry yields type Movie, category Movies,
\* quality 4K, platform Netflix, year 2023 and name "The Great Movie".
C4_ScenarioC_AsStated ==
  ScenarioCParsed =>
    /\ entries[1].type = <<"M", "o", "v", "i", "e">>
    /\ entries[1].category = <<"M", "o", "v", "i", "e", "s">>
    /\ entries[1].quality = <<"4", "K">>
    /\ entries[1].platform = <<"N", "e", "t", "f", "l", "i", "x">>
    /\ entries[1].year = <<"2", "0", "2", "3">>
    /\ entries[1].name = <<"T", "h", "e", " ", "G", "r", "e", "a", "t", " ", "M", "o", "v", "i", "e">>

\* C4 amended: the Scenario C entry yields type null (SINEMA is not one of the
\* type keywords and "| NETFLIX |" is no piped 2-3 letter code), category
\* Movies, quality 4K, platform Netflix, year 2023 (the tvg-name year wins over
\* the group-title year 2024) and name "The Great Movie".
C4_ScenarioC ==
  ScenarioCParsed =>
    /\ entries[1].type = NULL
    /\ entries[1].category = <<"M", "o", "v", "i", "e", "s">>
    /\ entries[1].quality = <<"4", "K">>
    /\ entries[1].platform = <<"N", "e", "t", "f", "l", "i", "x">>
    /\ entries[1].year = <<"2", "0", "2", "3">>
    /\ entries[1].name = <<"T", "h", "e", " ", "G", "r", "e", "a", "t", " ", "M", "o", "v", "i", "e">>

C4_Witness == ScenarioCParsed /\ entries[1].year = <<"2", "0", "2", "3">>

\* C5: every record returned by parseM3U has season = null exactly when
\* episode = null.
C5_SeasonEpisodeTogether ==
  \A k \in 1..Len(entries) :
    (entries[k].season = NULL) <=> (entries[k].episode = NULL)

\* a record with a season and an episode, from a tvg-name with leading zeros
C5_Witness ==
  /\ pc = "done"
  /\ includes(attrs.tvgName, <<"S", "0", "1", "E", "0", "0", "5">>)
  /\ Len(entries) = 1
  /\ entries[1].season = <<"1">>
  /\ entries[1].episode = <<"5">>

\* C6: no two records of one parseM3U invocation have the same id.
C6_IdsUnique ==
  \A j, k \in 1..Len(entries) : j # k => entries[j].id # entries[k].id

\* a playlist with a header line that yields two records
C6_Witness ==
  /\ pc = "done"
  /\ Len(entries) = 2
  /\ lines[1] = HeaderLine


\* the 2-3 letter code enclosed at position p of s: an opening [ or |, two or
\* three letters A-Z, a closing ] or |; NULL when there is none
EnclosedCodeAt(s, p) ==
  LET ns == {n \in {2, 3} :
               /\ p + n + 1 <= Len(s)
               /\ s[p] \in {"[", "|"}
               /\ \A k \in 1..n : IsUpperAZ(s[p + k])
               /\ s[p + n + 1] \in {"]", "|"}}
  IN IF ns = {} THEN NULL ELSE SubSeq(s, p + 1, p + Max(ns))
\* the leftmost enclosed code of s, NULL when s has none
LeftmostEnclosedCode(s) ==
  LET ps == {p \in 1..Len(s) : EnclosedCodeAt(s, p) # NULL}
  IN IF ps = {} THEN NULL ELSE EnclosedCodeAt(s, Min(ps))
MentionsTurkish(s) == includes(s, <<"T", "U", "R", "K", "C", "E">>) \/ includes(s, <<"T", "U", "R", "K", "I", "Y", "E">>)

\* C7 as stated: an enclosed code decides the language alone, null when the
\* code is not in the table even if TURKCE or TURKIYE is present; TURKCE or
\* TURKIYE gives tur only when the group-title has no enclosed code.
C7_Language_AsStated ==
  pc = "done" =>
    \A k \in 1..Len(entries) :
      LET upperTitle == toUpperCase(attrs.groupTitle)
          code == LeftmostEnclosedCode(upperTitle)
      IN entries[k].language =
           IF code # NULL
           THEN IF InLanguageCodeMap(code) THEN LanguageOfCode(code) ELSE NULL
           ELSE IF MentionsTurkish(upperTitle) THEN <<"t", "u", "r">> ELSE NULL

\* C7 amended: when the leftmost enclosed code of the group-title is in the
\* table, language is its table value; otherwise (no enclosed code, or a
\* leftmost code that is not in the table) language is tur if the group-title
\* contains TURKCE or TURKIYE and null if it does not.
C7_Language ==
  pc = "done" =>
    \A k \in 1..Len(entries) :
      LET upperTitle == toUpperCase(attrs.groupTitle)
          code == LeftmostEnclosedCode(upperTitle)
      IN entries[k].language =
           IF code # NULL /\ InLanguageCodeMap(code) THEN LanguageOfCode(code)
           ELSE IF MentionsTurkish(upperTitle) THEN <<"t", "u", "r">> ELSE NULL

\* a group-title with an unknown enclosed code and TURKCE: language is tur
C7_Witness ==
  /\ pc = "done"
  /\ Len(entries) = 1
  /\ LeftmostEnclosedCode(toUpperCase(attrs.groupTitle)) = <<"X", "X">>
  /\ MentionsTurkish(toUpperCase(attrs.groupTitle))
  /\ entries[1].language = <<"t", "u", "r">>

\* s has a token S<2+ digits>E<2+ digits>
HasSeasonEpisodeToken(s) ==
  \E p \in 1..Len(s) :
    /\ s[p] = "S"
    /\ \E a \in 2..(Len(s) - p) :
         /\ \A k \in 1..a : IsDigit(s[p + k])
         /\ p + a + 3 <= Len(s)
         /\ s[p + a + 1] = "E"
         /\ IsDigit(s[p + a + 2]) /\ IsDigit(s[p + a + 3])
\* s has a 2-3 letter code between open and close
HasCodeBetween(s, open, close) ==
  \E p \in 1..Len(s) : \E n \in {2, 3} :
    /\ p + n + 1 <= Len(s)
    /\ s[p] = open
    /\ \A k \in 1..n : IsUpperAZ(s[p + k])
    /\ s[p + n + 1] = close
ContainsAny(s, words) == \E w \in words : includes(s, w)

\* C8: type is decided by the first matching rule: a season/episode token in
\* tvg-name -> Series; DIZI/SERIES in group-title -> Series; FILM/MOVIE/CINEMA/
\* BIOSCOOP -> Movie; RADIO/RADYO -> Radio; a bracketed 2-3 letter code -> TV;
\* a piped 2-3 letter code -> Movie; otherwise null (on the uppercased texts).
C8_TypePrecedence ==
  pc = "done" =>
    \A k \in 1..Len(entries) :
      LET gt == toUpperCase(attrs.groupTitle)
          tn == toUpperCase(attrs.tvgName)
          type == entries[k].type
      IN IF HasSeasonEpisodeToken(tn) THEN type = <<"S", "e", "r", "i", "e", "s">>
         ELSE IF ContainsAny(gt, {<<"D", "I", "Z", "I">>, <<"S", "E", "R", "I", "E", "S">>}) THEN type = <<"S", "e", "r", "i", "e", "s">>
         ELSE IF ContainsAny(gt, {<<"F", "I", "L", "M">>, <<"M", "O", "V", "I", "E">>, <<"C", "I", "N", "E", "M", "A">>, <<"B", "I", "O", "S", "C", "O", "O", "P">>})
              THEN type = <<"M", "o", "v", "i", "e">>
         ELSE IF ContainsAny(gt, {<<"R", "A", "D", "I", "O">>, <<"R", "A", "D", "Y", "O">>}) THEN type = <<"R", "a", "d", "i", "o">>
         ELSE IF HasCodeBetween(gt, "[", "]") THEN type = <<"T", "V">>
         ELSE IF HasCodeBetween(gt, "|", "|") THEN type = <<"M", "o", "v", "i", "e">>
         ELSE type = NULL

\* a season/episode token in tvg-name gives Series although the group-title
\* holds a movie keyword, a radio keyword and a bracketed code
C8_Witness ==
  /\ pc = "done"
  /\ Len(entries) = 1
  /\ attrs.tvgName = ScenarioB.tvgName
  /\ attrs.groupTitle = <<"f", "i", "l", "m", "R", "A", "D", "Y", "O", "[", "T", "R", "]">>
  /\ entries[1].type = <<"S", "e", "r", "i", "e", "s">>

\* the maximal runs of characters of s that are not white space
RECURSIVE Words(_)
Words(s) ==
  LET t == trim(s)
      n == RunLen(t, 1, LAMBDA c : ~IsSpace(c))
  IN IF t = <<>> THEN <<>> ELSE <<SubSeq(t, 1, n)>> \o Words(SubSeq(t, n + 1, Len(t)))
RECURSIVE JoinWords(_)
JoinWords(ws) ==
  IF ws = <<>> THEN <<>>
  ELSE IF Len(ws) = 1 THEN ws[1]
  ELSE ws[1] \o <<" ">> \o JoinWords(Tail(ws))
RECURSIVE DropQualityWords(_)
DropQualityWords(ws) ==
  IF ws = <<>> THEN <<>>
  ELSE IF toUpperCase(Head(ws)) \in {<<"4", "K">>, <<"U", "H", "D">>, <<"F", "H", "D">>, <<"H", "D">>}
       THEN DropQualityWords(Tail(ws))
       ELSE <<Head(ws)>> \o DropQualityWords(Tail(ws))
\* a tvg-name of letters, digits and white space with no season/episode token:
\* nothing but quality tokens is there for name cleaning to remove
IsPlainName(s) ==
  /\ \A k \in 1..Len(s) : IsUpperAZ(s[k]) \/ IsLowerAZ(s[k]) \/ IsDigit(s[k]) \/ IsSpace(s[k])
  /\ ~HasSeasonEpisodeToken(toUpperCase(s))

\* C9: name cleaning removes only the standalone quality tokens 4K, UHD, FHD
\* and HD: the name of a plain tvg-name is its words that are not quality
\* tokens, each intact, separated by single spaces (null when none is left).
C9_OnlyStandaloneQualityTokens ==
  pc = "done" =>
    \A k \in 1..Len(entries) :
      IsPlainName(attrs.tvgName) =>
        LET kept == DropQualityWords(Words(attrs.tvgName))
        IN entries[k].name = IF kept = <<>> THEN NULL ELSE JoinWords(kept)

HasNoAttributes(line) ==
  /\ ~includes(line, <<"g", "r", "o", "u", "p", "-", "t", "i", "t", "l", "e", "=", "\"">>)
  /\ ~includes(line, <<"t", "v", "g", "-", "n", "a", "m", "e", "=", "\"">>)
  /\ ~includes(line, <<"t", "v", "g", "-", "l", "o", "g", "o", "=", "\"">>)

\* C10: a #EXTINF line with none of the three attributes and no following line
\* yields a record (the last one) with logo null, url "" and every classified
\* field null.
C10_BareLastEntry ==
  pc = "done" =>
    LET ls == TrimmedLines(content)
    IN (/\ ls # <<>>
        /\ startsWith(ls[Len(ls)], <<"#", "E", "X", "T", "I", "N", "F", ":">>)
        /\ HasNoAttributes(ls[Len(ls)])) =>
         /\ entries # <<>>
         /\ LET e == entries[Len(entries)]
            IN /\ e.logo = NULL
               /\ e.url = <<>>
               /\ \A f \in {"name", "language", "media", "type", "category", "quality",
                            "platform", "year", "season", "episode"} : e[f] = NULL


\* The bare last #EXTINF line does yield that record whenever the loop reaches
\* it as a metadata line, that is, when it is not taken as the url of a
\* #EXTINF line right before it.
BareLastEntryWhenReached ==
  pc = "done" =>
    LET ls == TrimmedLines(content)
        n == Len(ls)
    IN (/\ n >= 1
        /\ startsWith(ls[n], <<"#", "E", "X", "T", "I", "N", "F", ":">>)
        /\ HasNoAttributes(ls[n])
        /\ (n = 1 \/ ~startsWith(ls[n - 1], <<"#", "E", "X", "T", "I", "N", "F", ":">>))) =>
         /\ entries # <<>>
         /\ LET e == entries[Len(entries)]
            IN /\ e.logo = NULL
               /\ e.url = <<>>
               /\ \A f \in {"name", "language", "media", "type", "category", "quality",
                            "platform", "year", "season", "episode"} : e[f] = NULL


\* two items are members (allItems) of one group
SameGroup(a, b) ==
  \E k \in 1..Len(groups) :
    a \in Range(groups[k].allItems) /\ b \in Range(groups[k].allItems)

C12_NonSeriesItemsAreSingletons ==
  gpc = "done" =>
    /\ \A it \in Range(items) :
         it.type # <<"S", "e", "r", "i", "e", "s">> =>
           \E k \in 1..Len(groups) :
             groups[k].allItems = <<it>> /\ groups[k].representative = it
    /\ Cardinality({k \in 1..Len(groups) : groups[k].representative.type # <<"S", "e", "r", "i", "e", "s">>})
         = Cardinality({k \in 1..Len(items) : items[k].type # <<"S", "e", "r", "i", "e", "s">>})

\* C13: getGroupForItem, for an item of the list, returns a group (not null)
\* whose allItems holds that item.
C13_GroupForItemHoldsItem ==
  view.op = "getGroupForItem" =>
    /\ view.result # NoGroup
    /\ view.item \in Range(view.result.allItems)

\* the season label the buckets are keyed by
SeasonLabel(item) == IF item.season = NULL THEN <<"u", "n", "k", "n", "o", "w", "n">> ELSE item.season
EpisodeNumber(item) == PairOf(item)[2]

\* C14: in every group the season buckets partition allItems by season
\* label (null under "unknown"): every item is in exactly one bucket, the one
\* of its label; inside each bucket the episode numbers never increase.
C14_SeasonBucketsPartitionAndSort ==
  gpc = "done" =>
    \A g \in 1..Len(groups) :
      LET group == groups[g]
          bs == group.seasons
      IN /\ \A a, b \in 1..Len(bs) : a # b => bs[a].season # bs[b].season
         /\ \A b \in 1..Len(bs) :
              /\ bs[b].episodes # <<>>
              /\ \A e \in 1..Len(bs[b].episodes) :
                   /\ SeasonLabel(bs[b].episodes[e]) = bs[b].season
                   /\ bs[b].episodes[e] \in Range(group.allItems)
                   /\ \A f \in 1..Len(bs[b].episodes) :
                        e < f => /\ bs[b].episodes[e] # bs[b].episodes[f]
                                 /\ EpisodeNumber(bs[b].episodes[e])
                                      >= EpisodeNumber(bs[b].episodes[f])
         /\ \A it \in Range(group.allItems) :
              \E b \in 1..Len(bs) : it \in Range(bs[b].episodes)

\* one show given as S1E1, S1E5, then an episode without season: bucket "1"
\* lists E5 before E1, bucket "unknown" holds the third
C14_Witness ==
  /\ gpc = "done"
  /\ Len(items) = 3
  /\ items[1].id = <<1, 1>> /\ items[2].id = <<2, 1>> /\ items[3].id = <<6, 1>>
  /\ Len(groups) = 1
  /\ Len(groups[1].seasons) = 2
  /\ groups[1].seasons[1].season = <<"1">>
  /\ groups[1].seasons[1].episodes = <<items[2], items[1]>>
  /\ groups[1].seasons[2].season = <<"u", "n", "k", "n", "o", "w", "n">>
  /\ groups[1].seasons[2].episodes = <<items[3]>>

\* the number a season label stands for: its decimal value, 0 when it is not
\* a number
SeasonLabelValue(label) ==
  IF label # <<>> /\ \A k \in 1..Len(label) : IsDigit(label[k])
  THEN DigitsToInt(label) ELSE 0

\* C15: getSortedSeasons returns every season bucket of the group exactly
\* once, by season number in non-increasing order, a label that is not a
\* number counting as 0.
C15_SortedSeasonsIsSortedPermutation ==
  view.op = "getSortedSeasons" =>
    LET bs == view.group.seasons
        res == view.result
    IN /\ Len(res) = Len(bs)
       /\ \A b \in 1..Len(bs) :
            Cardinality({r \in 1..Len(res) :
                           /\ res[r].season = bs[b].season
                           /\ res[r].episodes = bs[b].episodes}) = 1
       /\ \A r \in 1..Len(res) : \A q \in 1..Len(res) :
            r < q => SeasonLabelValue(res[r].season) >= SeasonLabelValue(res[q].season)

\* a show whose buckets were created in the order 1, 10, 2, unknown is listed
\* as 10, 2, 1, unknown
C15_Witness ==
  /\ view.op = "getSortedSeasons"
  /\ Len(view.group.seasons) = 4
  /\ [k \in 1..4 |-> view.group.seasons[k].season]
       = <<<<"1">>, <<"1", "0">>, <<"2">>, <<"u", "n", "k", "n", "o", "w", "n">>>>
  /\ [k \in 1..4 |-> view.result[k].season]
       = <<<<"1", "0">>, <<"2">>, <<"1">>, <<"u", "n", "k", "n", "o", "w", "n">>>>

\* the number of digits of s from position p on
DigitsFrom(s, p) ==
  Cardinality({n \in 1..(Len(s) - p + 1) : \A k \in p..(p + n - 1) : IsDigit(s[k])})
\* an S<digits>E<digits> token, each group of two digits or more, in either
\* case, starts at position p of s
TokenStartsAt(s, p) ==
  /\ s[p] \in {"S", "s"}
  /\ DigitsFrom(s, p + 1) >= 2
  /\ p + 1 + DigitsFrom(s, p + 1) <= Len(s)
  /\ s[p + 1 + DigitsFrom(s, p + 1)] \in {"E", "e"}
  /\ DigitsFrom(s, p + 2 + DigitsFrom(s, p + 1)) >= 2
\* a digit string without its leading zeros (the last digit always stays)
RECURSIVE StripLeadingZeros(_)
StripLeadingZeros(ds) ==
  IF Len(ds) > 1 /\ ds[1] = "0" THEN StripLeadingZeros(Tail(ds)) ELSE ds

\* C16: season and episode are the digit groups of the first S<digits>E<digits>
\* token of tvg-name (either case, two digits or more each) written without
\* leading zeros; without such a token both are null.
C16_SeasonEpisodeWithoutLeadingZeros ==
  pc = "done" =>
    \A k \in 1..Len(entries) :
      LET tn == attrs.tvgName
          starts == {p \in 1..Len(tn) : TokenStartsAt(tn, p)}
          p == Min(starts)
          sLen == DigitsFrom(tn, p + 1)
          eLen == DigitsFrom(tn, p + 2 + sLen)
      IN IF starts = {}
         THEN entries[k].season = NULL /\ entries[k].episode = NULL
         ELSE /\ entries[k].season = StripLeadingZeros(SubSeq(tn, p + 1, p + sLen))
              /\ entries[k].episode
                   = StripLeadingZeros(SubSeq(tn, p + sLen + 2, p + sLen + 1 + eLen))

\* tvg-name "S1E05s10e100S01E005": the first token with two digits in each
\* group is the lower-case s10e100
C16_Witness ==
  /\ pc = "done"
  /\ Len(entries) = 1
  /\ attrs.tvgName = <<"S", "1", "E", "0", "5", "s", "1", "0", "e", "1", "0", "0", "S", "0", "1", "E", "0", "0", "5">>
  /\ entries[1].season = <<"1", "0">>
  /\ entries[1].episode = <<"1", "0", "0">>

\* the spec's example: S01E005 gives season "1" and episode "5"
C16_Example ==
  (pc = "done" /\ attrs.tvgName = <<"S", "0", "1", "E", "0", "0", "5">>) =>
    (entries[1].season = <<"1">> /\ entries[1].episode = <<"5">>)

\* C19: quality is the first match in the order 4K, UHD, FHD (on the
\* uppercased group-title); a group-title with both 4K and UHD yields 4K.
C19_QualityFirstMatch ==
  pc = "done" =>
    \A k \in 1..Len(entries) :
      LET gt == toUpperCase(attrs.groupTitle)
          quality == entries[k].quality
      IN /\ (ContainsAny(gt, {<<"4", "K">>}) /\ ContainsAny(gt, {<<"U", "H", "D">>})) => quality = <<"4", "K">>
         /\ IF ContainsAny(gt, {<<"4", "K">>}) THEN quality = <<"4", "K">>
            ELSE IF ContainsAny(gt, {<<"U", "H", "D">>}) THEN quality = <<"U", "H", "D">>
            ELSE IF ContainsAny(gt, {<<"F", "H", "D">>}) THEN quality = <<"F", "H", "D">>
            ELSE quality = NULL

\* UHD comes before 4K in the text and the quality is 4K
C19_Witness ==
  /\ pc = "done"
  /\ Len(entries) = 1
  /\ attrs.groupTitle = <<"U", "H", "D", " ", "4", "K">>
  /\ entries[1].quality = <<"4", "K">>

\* C20, as stated: a group-title containing both hbo and netflix (any case,
\* either order) yields platform HBO Max.
C20_HboAndNetflix_AsStated ==
  pc = "done" =>
    \A k \in 1..Len(entries) :
      LET gt == toLowerCase(attrs.groupTitle)
      IN (ContainsAny(gt, {<<"h", "b", "o">>}) /\ ContainsAny(gt, {<<"n", "e", "t", "f", "l", "i", "x">>}))
           => entries[k].platform = <<"H", "B", "O", " ", "M", "a", "x">>

\* C20: a group-title containing both hbo and netflix (any case, either order)
\* and none of the keywords checked before hbo (amazon, blu, disney, ex-xen,
\* exxen, gain) yields platform HBO Max.
C20_HboAndNetflix ==
  pc = "done" =>
    \A k \in 1..Len(entries) :
      LET gt == toLowerCase(attrs.groupTitle)
      IN (/\ ContainsAny(gt, {<<"h", "b", "o">>}) /\ ContainsAny(gt, {<<"n", "e", "t", "f", "l", "i", "x">>})
          /\ ~ContainsAny(gt, {<<"a", "m", "a", "z", "o", "n">>, <<"b", "l", "u">>, <<"d", "i", "s", "n", "e", "y">>, <<"e", "x", "-", "x", "e", "n">>, <<"e", "x", "x", "e", "n">>,
                               <<"g", "a", "i", "n">>}))
           => entries[k].platform = <<"H", "B", "O", " ", "M", "a", "x">>

\* netflix comes before hbo in the text and the platform is HBO Max
C20_Witness ==
  /\ pc = "done"
  /\ Len(entries) = 1
  /\ attrs.groupTitle = <<"N", "E", "T", "F", "L", "I", "X", "h", "b", "o">>
  /\ entries[1].platform = <<"H", "B", "O", " ", "M", "a", "x">>

ParseLoopIsTheLoop == pc = "done" => entries = parseM3U(impl, content)

\* a text that syncIPTVData must reject: it fails the validity test, or it
\* passes and has no line that starts a record
Rejectable(text) ==
  \/ ~(startsWith(trim(text), <<"#", "E", "X", "T", "M", "3", "U">>) \/ includes(text, <<"#", "E", "X", "T", "I", "N", "F", ":">>))
  \/ ExtinfPositions(TrimmedLines(text)) = {}

\* C17: a syncIPTVData call whose download is no valid playlist, or is a valid
\* playlist without a record, returns success = false and leaves the stored
\* catalog, metadata and last-sync time (the store and the settings) and the
\* content cache as they were when it was called.
C17_RejectedSyncWritesNothing ==
  [][\A c \in 1..Len(calls) :
       (/\ calls[c].pc \in {"text", "parse"}
        /\ Rejectable(calls[c].text.some)
        /\ calls'[c].pc \notin {"text", "parse"})
         => /\ calls'[c].pc = "returned"
            /\ calls'[c].result.success = FALSE
            /\ store' = calls[c].before.store
            /\ settings' = calls[c].before.settings
            /\ cachedData' = calls[c].before.cachedData]_vars

\* the second call, made when a catalog is stored and cached, downloaded a
\* playlist without a record and has returned failure
C17_Witness ==
  /\ Len(calls) = 2
  /\ calls[1].result.success
  /\ calls[2].pc = "returned"
  /\ calls[2].text = Some(HeaderLine)
  /\ ~calls[2].result.success
  /\ calls[2].before.store.content # None
  /\ calls[2].before.cachedData = calls[2].before.store.content
  /\ cachedData = calls[2].before.cachedData

\* C25: every record has type = TV implies media = Live, type = Radio implies
\* media = Live, and media = On Demand implies type is Series or Movie.
C25_TypeAndMediaAgree ==
  pc = "done" =>
    \A k \in 1..Len(entries) :
      /\ entries[k].type = <<"T", "V">> => entries[k].media = <<"L", "i", "v", "e">>
      /\ entries[k].type = <<"R", "a", "d", "i", "o">> => entries[k].media = <<"L", "i", "v", "e">>
      /\ entries[k].media = <<"O", "n", " ", "D", "e", "m", "a", "n", "d">> => entries[k].type \in {<<"S", "e", "r", "i", "e", "s">>, <<"M", "o", "v", "i", "e">>}

\* a radio group-title that also holds a piped code: type Radio, media Live
C25_Witness ==
  /\ pc = "done"
  /\ Len(entries) = 1
  /\ attrs.groupTitle = <<"|", "N", "L", "|", "R", "A", "D", "Y", "O">>
  /\ attrs.tvgName = <<>>
  /\ entries[1].type = <<"R", "a", "d", "i", "o">>
  /\ entries[1].media = <<"L", "i", "v", "e">>

\* C28: when isValidM3U rejects a text, parseM3U returns the empty list for
\* it: a record only comes from a text the validity test accepts.
C28_InvalidTextHasNoRecord ==
  pc = "done" => (~isValidM3U(content) => entries = <<>>)

\* a text of url lines only is rejected and has been parsed to no record
C28_Witness ==
  /\ pc = "done"
  /\ content = join(<<UrlLine, PaddedUrlLine>>)
  /\ ~isValidM3U(content)
  /\ entries = <<>>

\* the fields of a record other than id
FieldsButId == {"name", "language", "media", "type", "category", "quality", "platform",
                "year", "season", "episode", "logo", "url", "source"}
OtherImpl == IF impl = "ts" THEN "cjs" ELSE "ts"

C26_SeasonImpliesSeriesAndShowGroup ==
  /\ pc = "done" =>
       \A k \in 1..Len(entries) :
         entries[k].season # NULL =>
           entries[k].episode # NULL /\ entries[k].type = <<"S", "e", "r", "i", "e", "s">>
  /\ gpc = "done" =>
       \A k \in 1..Len(items) :
         items[k].season # NULL =>
           \E g \in 1..Len(groups) :
             /\ groups[g].key = SeriesKey(items[k])
             /\ items[k] \in Range(groups[g].allItems)

\* an episode with a lower-case token under a movie title is a Series record
\* and shares the group of the show's other episode
C26_Witness ==
  /\ gpc = "done"
  /\ content = join(<<HeaderLine>> \o EntryLines(
        << [groupTitle |-> <<"f", "i", "l", "m">>, tvgName |-> <<"S", "h", "o", "w", " ", "s", "1", "0", "e", "0", "1">>],
           [groupTitle |-> <<"D", "I", "Z", "I">>, tvgName |-> <<"S", "h", "o", "w", " ", "S", "0", "1", "E", "0", "5">>] >>))
  /\ items[1].season = <<"1", "0">> /\ items[1].episode = <<"1">>
  /\ items[1].type = <<"S", "e", "r", "i", "e", "s">>
  /\ Len(groups) = 1
  /\ groups[1].allItems = items

\* C27: for every group built from the records parseM3U returned, the first
\* episode of the first entry of getSortedSeasons(group) has the same integer
\* (season, episode) pair as the group's representative.
C27_CoverEpisodeIsListedFirst ==
  view.op = "getSortedSeasons" =>
    /\ view.result # <<>>
    /\ view.result[1].episodes # <<>>
    /\ PairOf(view.result[1].episodes[1]) = PairOf(view.group.representative)

\* the stored watch history as a list
Stored == IF history = None THEN <<>> ELSE history.some

\* C24: after any sequence of saveWatchProgress, removeFromWatchHistory and
\* clearWatchHistory calls the stored history holds at most 12 entries, no two
\* of them with the same content url, and an accepted save leaves its entry
\* first, the most recent one and the only one of its url.
C24_HistoryIsBoundedUniqueAndNewestFirst ==
  /\ Len(Stored) <= 12
  /\ \A a, b \in 1..Len(Stored) :
       a # b => Stored[a].content.url # Stored[b].content.url
  /\ (watch.op = "saveWatchProgress" /\ watch.accepted) =>
       /\ Stored # <<>>
       /\ Stored[1].content.url = watch.url
       /\ Stored[1].currentTime = watch.currentTime
       /\ Stored[1].lastWatched = clock
       /\ \A k \in 1..Len(Stored) : Stored[k].lastWatched <= Stored[1].lastWatched

\* a full history whose oldest entry is watched again: its entry moves from
\* the last place to the first and the list still holds 12 entries
C24_Witness ==
  /\ watch.op = "saveWatchProgress"
  /\ watch.accepted
  /\ watch.n = 1
  /\ watch.url = WatchedItem(2).url
  /\ Len(Stored) = 12
  /\ Stored[1].content = WatchedItem(2)
  /\ Stored[2].content = WatchedItem(13)
  /\ Stored[12].content = WatchedItem(3)

\* C21: after a download is canceled through file:download:cancel, at any
\* point of the transfer, the partly written file is eventually deleted from
\* disk and the download's entry is gone from the activeDownloads table.
C21_CanceledDownloadLeavesNoFile ==
  downloadState.canceled ~> (~disk.exists /\ activeDownloads = {})

\* C22: when a download has reached the status complete, under any sequence
\* of pause and resume calls, every chunk the response emitted has been
\* written to the file exactly once and in the order of arrival.
C22_CompleteFileHoldsEveryChunk ==
  status = "complete" => disk.data = received

\* what loadContentData makes of a stored catalog: the stored records, or the
\* static catalog when none are stored
CatalogOf(stored) ==
  IF stored # None /\ Len(stored.some) > 0 THEN stored ELSE Some(StaticContent)

\* C23: once a syncIPTVData call has returned success, the content cache
\* never holds the catalog of before that sync (when the sync changed it),
\* whatever loadContentData calls ran before or during the sync.
C23_CacheNeverHoldsPreSyncCatalog ==
  \A c \in 1..Len(calls) :
    (/\ calls[c].pc = "returned"
     /\ calls[c].result.success
     /\ CatalogOf(calls[c].before.store.content) # calls[c].items)
    => cachedData # CatalogOf(calls[c].before.store.content)

\* C30: whenever no syncIPTVData call is in progress, the stored metadata
\* belongs to the stored catalog: metadata.itemCount is the number of stored
\* records, also after calls that overlapped.
C30_StoredMetadataMatchesStoredCatalog ==
  (\A c \in 1..Len(calls) : ~Running(c)) =>
    (store.content # None =>
       /\ store.metadata # None
       /\ store.metadata.some.itemCount = Len(store.content.some))

=========================================================================
